---------------------------- MODULE Spec2Model ----------------------------
(***************************************************************************)
(* Model of the Microsoft Graph MCP server: the request executor and its   *)
(* pagination loop (graph-tools.ts), the get-transcript-by-meeting         *)
(* workflow (composite-tools.ts) and the HTTP /mcp handlers (server.ts).   *)
(*                                                                         *)
(* JavaScript strings are tuples of one-character strings, so that         *)
(* startsWith, slice, toLowerCase, replace, includes and                   *)
(* encodeURIComponent are computed and not assumed.  An optional value     *)
(* (undefined or a value) is a tuple of length 0 or 1.                     *)
(***************************************************************************)
EXTENDS Integers, Sequences, FiniteSets, TLC

(***************************************************************************)
(* Bounds of the model.                                                    *)
(***************************************************************************)
NumPages == 2
MaxItems == 1

(***************************************************************************)
(* String primitives of the JavaScript runtime.                            *)
(***************************************************************************)
Min(S) == CHOOSE x \in S : \A y \in S : x <= y

\* String.prototype.indexOf with a string pattern, 1-based; 0 when absent.
IndexOf(s, pat) ==
  LET hits == {i \in 1..(Len(s) - Len(pat) + 1) :
                 SubSeq(s, i, i + Len(pat) - 1) = pat}
  IN  IF hits = {} THEN 0 ELSE Min(hits)

Includes(s, pat) == IndexOf(s, pat) # 0

StartsWith(s, pat) ==
  Len(pat) <= Len(s) /\ SubSeq(s, 1, Len(pat)) = pat

EndsWith(s, pat) ==
  Len(pat) <= Len(s) /\ SubSeq(s, Len(s) - Len(pat) + 1, Len(s)) = pat

\* String.prototype.replace with a string pattern: the first occurrence only.
ReplaceFirst(s, pat, rep) ==
  LET i == IndexOf(s, pat)
  IN  IF i = 0 THEN s
      ELSE SubSeq(s, 1, i - 1) \o rep \o SubSeq(s, i + Len(pat), Len(s))

\* String.prototype.slice(1)
Slice1(s) == SubSeq(s, 2, Len(s))

UpperLetters == <<"A","B","C","D","E","F","G","H","I","J","K","L","M","N","O","P","Q","R","S","T","U","V","W","X","Y","Z">>
LowerLetters == <<"a","b","c","d","e","f","g","h","i","j","k","l","m","n","o","p","q","r","s","t","u","v","w","x","y","z">>

LowerChar(c) ==
  IF \E i \in 1..26 : UpperLetters[i] = c
  THEN LowerLetters[CHOOSE i \in 1..26 : UpperLetters[i] = c]
  ELSE c

UpperChar(c) ==
  IF \E i \in 1..26 : LowerLetters[i] = c
  THEN UpperLetters[CHOOSE i \in 1..26 : LowerLetters[i] = c]
  ELSE c

ToLowerCase(s) == [i \in 1..Len(s) |-> LowerChar(s[i])]
ToUpperCase(s) == [i \in 1..Len(s) |-> UpperChar(s[i])]

\* encodeURIComponent on one character: letters, digits and - _ . ! ~ * ' ( )
\* are kept, every other character is percent-encoded.
EncodeChar(c) ==
  CASE c = "$"  -> <<"%","2","4">>
    [] c = "/"  -> <<"%","2","F">>
    [] c = " "  -> <<"%","2","0">>
    [] c = "="  -> <<"%","3","D">>
    [] c = "&"  -> <<"%","2","6">>
    [] c = "?"  -> <<"%","3","F">>
    [] c = ":"  -> <<"%","3","A">>
    [] c = "{"  -> <<"%","7","B">>
    [] c = "}"  -> <<"%","7","D">>
    [] c = "["  -> <<"%","5","B">>
    [] c = "]"  -> <<"%","5","D">>
    [] c = "%"  -> <<"%","2","5">>
    [] c = "\"" -> <<"%","2","2">>
    [] OTHER    -> <<c>>

RECURSIVE encodeURIComponent(_)
encodeURIComponent(s) ==
  IF s = <<>> THEN <<>>
  ELSE EncodeChar(Head(s)) \o encodeURIComponent(Tail(s))

(***************************************************************************)
(* Record<string, string>: an object whose keys keep insertion order.      *)
(* Assigning an existing key keeps its position.                           *)
(***************************************************************************)
HasKey(m, k) == \E i \in 1..Len(m) : m[i][1] = k

Keys(m) == {m[i][1] : i \in 1..Len(m)}

Put(m, k, v) ==
  IF HasKey(m, k)
  THEN [i \in 1..Len(m) |-> IF m[i][1] = k THEN <<k, v>> ELSE m[i]]
  ELSE Append(m, <<k, v>>)

\* m[k] as an optional value
Get(m, k) ==
  IF HasKey(m, k)
  THEN <<m[CHOOSE i \in 1..Len(m) : m[i][1] = k][2]>>
  ELSE <<>>

(***************************************************************************)
(* Parameter values: a string or a boolean, possibly nested in objects.    *)
(* w lists the enclosing field names, outermost first: w = <<f>> is the    *)
(* object {f: base}.                                                       *)
(***************************************************************************)
Str(s)  == [k |-> "str",  s |-> s,    b |-> FALSE, w |-> <<>>]
Bool(b) == [k |-> "bool", s |-> <<>>, b |-> b,     w |-> <<>>]

\* { [name]: v }
Wrap(name, v) == [v EXCEPT !.w = <<name>> \o v.w]

IsString(v) == v.w = <<>> /\ v.k = "str"

IsTrue(v) == v.w = <<>> /\ v.k = "bool" /\ v.b

\* JavaScript truthiness
Truthy(v) ==
  \/ v.w # <<>>
  \/ v.k = "str" /\ v.s # <<>>
  \/ v.k = "bool" /\ v.b

\* `${v}`
StringOf(v) ==
  IF v.w # <<>> THEN <<"[","o","b","j","e","c","t"," ","O","b","j","e","c","t","]">>
  ELSE IF v.k = "str" THEN v.s
  ELSE IF v.b THEN <<"t","r","u","e">> ELSE <<"f","a","l","s","e">>

\* zod schema.safeParse(v).success; a schema is the tuple of field names
\* the object must be nested in (<<>> accepts a bare string).
SafeParse(schema, v) == v.k = "str" /\ v.w = schema

(***************************************************************************)
(* executeGraphTool: parameter binding (graph-tools.ts 91-227)             *)
(***************************************************************************)
controlParams ==
  { <<"f","e","t","c","h","A","l","l","P","a","g","e","s">>,
    <<"i","n","c","l","u","d","e","H","e","a","d","e","r","s">>,
    <<"e","x","c","l","u","d","e","R","e","s","p","o","n","s","e">>,
    <<"t","i","m","e","z","o","n","e">> }

odataParams ==
  { <<"f","i","l","t","e","r">>, <<"s","e","l","e","c","t">>, <<"e","x","p","a","n","d">>, <<"o","r","d","e","r","b","y">>, <<"s","k","i","p">>, <<"t","o","p">>,
    <<"c","o","u","n","t">>, <<"s","e","a","r","c","h">>, <<"f","o","r","m","a","t">> }

\* the loop's skip of control parameters (line 100)
IsControlParamNever(paramName) == FALSE

IsControlParam(paramName) == paramName \in controlParams

normalizedParamName(paramName) ==
  IF StartsWith(paramName, <<"$">>) THEN Slice1(paramName) ELSE paramName

isOdataParam(paramName) ==
  ToLowerCase(normalizedParamName(paramName)) \in odataParams

fixedParamNameAsGiven(paramName) == paramName

fixedParamName(paramName) ==
  IF isOdataParam(paramName)
  THEN <<"$">> \o ToLowerCase(normalizedParamName(paramName))
  ELSE paramName

\* parameterDefinitions.find(...): the first matching definition, if any
FindParamDef(defs, paramName) ==
  LET hits == {i \in 1..Len(defs) :
                 \/ defs[i].name = paramName
                 \/ /\ isOdataParam(paramName)
                    /\ defs[i].name = normalizedParamName(paramName)}
  IN  IF hits = {} THEN <<>> ELSE <<defs[Min(hits)]>>

\* case 'Body' (lines 138-158)
BindBodyAlwaysWraps(paramDef, paramName, paramValue) ==
  IF paramDef.schema # <<>>
  THEN IF ~SafeParse(paramDef.schema[1], paramValue)
       THEN Wrap(paramName, paramValue)
       ELSE paramValue
  ELSE paramValue

BindBody(paramDef, paramName, paramValue) ==
  IF paramDef.schema # <<>>
  THEN IF ~SafeParse(paramDef.schema[1], paramValue)
       THEN IF SafeParse(paramDef.schema[1], Wrap(paramName, paramValue))
            THEN Wrap(paramName, paramValue)
            ELSE paramValue
       ELSE paramValue
  ELSE paramValue

\* one iteration of the loop over Object.entries(params) (lines 98-168);
\* st = [path, queryParams, headers, body]
BindEntry(defs, st, paramName, paramValue) ==
  IF IsControlParam(paramName) THEN st
  ELSE
    LET paramDef == FindParamDef(defs, paramName) IN
    IF paramDef # <<>>
    THEN CASE paramDef[1].type = "Path" ->
                [st EXCEPT !.path =
                   ReplaceFirst(
                     ReplaceFirst(st.path, <<"{">> \o paramName \o <<"}">>,
                                  encodeURIComponent(StringOf(paramValue))),
                     <<":">> \o paramName,
                     encodeURIComponent(StringOf(paramValue)))]
           [] paramDef[1].type = "Query" ->
                [st EXCEPT !.queryParams =
                   Put(st.queryParams, fixedParamName(paramName),
                       StringOf(paramValue))]
           [] paramDef[1].type = "Body" ->
                [st EXCEPT !.body =
                   <<BindBody(paramDef[1], paramName, paramValue)>>]
           [] paramDef[1].type = "Header" ->
                [st EXCEPT !.headers =
                   Put(st.headers, fixedParamName(paramName),
                       StringOf(paramValue))]
           [] OTHER -> st
    ELSE IF paramName = <<"b","o","d","y">>
         THEN [st EXCEPT !.body = <<paramValue>>]
         ELSE st

RECURSIVE BindEntries(_, _, _)
BindEntries(defs, st, entries) ==
  IF entries = <<>> THEN st
  ELSE BindEntries(defs,
                   BindEntry(defs, st, Head(entries)[1], Head(entries)[2]),
                   Tail(entries))

\* Object.entries(queryParams).map(k=v encoded).join('&')
RECURSIVE QueryString(_)
QueryString(q) ==
  IF q = <<>> THEN <<>>
  ELSE encodeURIComponent(q[1][1]) \o <<"=">> \o encodeURIComponent(q[1][2])
       \o (IF Len(q) > 1 THEN <<"&">> ELSE <<>>) \o QueryString(Tail(q))

\* params.<key> as an optional value
Param(ps, key) == Get(ps, key)

\* params[key] === true
ParamIsTruthy(ps, key) ==
  Param(ps, key) # <<>> /\ Truthy(Param(ps, key)[1])

ParamIsTrue(ps, key) ==
  Param(ps, key) # <<>> /\ IsTrue(Param(ps, key)[1])

\* line 171: config?.supportsTimezone && params.timezone
TimezoneAppliesAnywhere(cfg, ps) ==
  Param(ps, <<"t","i","m","e","z","o","n","e">>) # <<>> /\ Truthy(Param(ps, <<"t","i","m","e","z","o","n","e">>)[1])

TimezoneApplies(cfg, ps) ==
  /\ cfg # <<>> /\ cfg[1].supportsTimezone
  /\ Param(ps, <<"t","i","m","e","z","o","n","e">>) # <<>> /\ Truthy(Param(ps, <<"t","i","m","e","z","o","n","e">>)[1])

\* lines 170-180: the Prefer and Accept headers
WithConfigHeaders(headers, cfg, ps) ==
  LET h1 == IF TimezoneApplies(cfg, ps)
            THEN Put(headers, <<"P","r","e","f","e","r">>,
                     <<"o","u","t","l","o","o","k",".","t","i","m","e","z","o","n","e","=","\"">>
                     \o StringOf(Param(ps, <<"t","i","m","e","z","o","n","e">>)[1]) \o <<"\"">>)
            ELSE headers
  IN  IF cfg # <<>> /\ cfg[1].acceptHeader # <<>>
      THEN Put(h1, <<"A","c","c","e","p","t">>, cfg[1].acceptHeader)
      ELSE h1

\* options.body (lines 202-204): an optional [raw, v]; raw = the value is a
\* string sent as is, otherwise JSON.stringify of the value
RequestBody(method, body) ==
  IF method # <<"G","E","T">> /\ body # <<>> /\ Truthy(body[1])
  THEN <<[raw |-> IsString(body[1]), v |-> body[1]]>>
  ELSE <<>>

\* lines 91-168: path, queryParams, headers and body after the loop
Bound(t, ps) ==
  BindEntries(t.parameters,
              [path |-> t.path, queryParams |-> <<>>, headers |-> <<>>,
               body |-> <<>>],
              ps)

\* The request that lines 91-227 build: the path and the options handed to
\* graphClient.graphRequest, with the queryParams map the path's query
\* string was serialized from.
BuildRequest(t, cfg, ps) ==
  LET st  == Bound(t, ps)
      hdr == WithConfigHeaders(st.headers, cfg, ps)
      p1  == IF st.queryParams # <<>>
             THEN st.path
                  \o (IF Includes(st.path, <<"?">>) THEN <<"&">> ELSE <<"?">>)
                  \o QueryString(st.queryParams)
             ELSE st.path
      method == ToUpperCase(t.method)
      isProbablyMediaContent == t.mediaContent \/ EndsWith(p1, <<"/","c","o","n","t","e","n","t">>)
      download == cfg # <<>> /\ cfg[1].returnDownloadUrl
                  /\ EndsWith(p1, <<"/","c","o","n","t","e","n","t">>)
      p2  == IF download
             THEN SubSeq(p1, 1, Len(p1) - Len(<<"/","c","o","n","t","e","n","t">>))
             ELSE p1
  IN  [path    |-> p2,
       query   |-> st.queryParams,
       options |->
         [method          |-> method,
          headers         |-> hdr,
          body            |-> RequestBody(method, st.body),
          rawResponse     |-> ~download /\ isProbablyMediaContent,
          includeHeaders  |-> ParamIsTrue(ps, <<"i","n","c","l","u","d","e","H","e","a","d","e","r","s">>),
          excludeResponse |-> ParamIsTrue(ps, <<"e","x","c","l","u","d","e","R","e","s","p","o","n","s","e">>),
          queryParams     |-> <<>>]]

(***************************************************************************)
(* The endpoint catalog (api.endpoints joined with endpoints.json): a      *)
(* GET listing, a POST, and an endpoint that declares parameters named     *)
(* like the control parameters, one in every binding location.             *)
(***************************************************************************)
ParamDef(name, type) == [name |-> name, type |-> type, schema |-> <<>>]

ListItems ==
  [alias        |-> <<"l","i","s","t","-","i","t","e","m","s">>,
   method       |-> <<"g","e","t">>,
   path         |-> <<"/","m","e","/","i","t","e","m","s">>,
   parameters   |-> <<ParamDef(<<"t","o","p">>, "Query"),
                      ParamDef(<<"f","i","l","t","e","r">>, "Query")>>,
   mediaContent |-> FALSE]

SendItem ==
  [alias        |-> <<"s","e","n","d","-","i","t","e","m">>,
   method       |-> <<"p","o","s","t">>,
   path         |-> <<"/","m","e","/","i","t","e","m","s">>,
   parameters   |-> <<ParamDef(<<"b","o","d","y">>, "Body")>>,
   mediaContent |-> FALSE]

PatchCtl ==
  [alias        |-> <<"p","a","t","c","h","-","c","t","l">>,
   method       |-> <<"p","a","t","c","h">>,
   path         |-> <<"/","c","/","{","f","e","t","c","h","A","l","l","P","a","g","e","s","}","/",":","f","e","t","c","h","A","l","l","P","a","g","e","s">>,
   parameters   |-> <<ParamDef(<<"f","e","t","c","h","A","l","l","P","a","g","e","s">>, "Path"),
                      ParamDef(<<"t","i","m","e","z","o","n","e">>, "Query"),
                      ParamDef(<<"i","n","c","l","u","d","e","H","e","a","d","e","r","s">>, "Header"),
                      ParamDef(<<"e","x","c","l","u","d","e","R","e","s","p","o","n","s","e">>, "Body"),
                      ParamDef(<<"t","o","p">>, "Query")>>,
   mediaContent |-> FALSE]

\* a GET that declares every reserved query parameter, under the names the
\* generated client gives them: without the leading "$"
OdataNames ==
  << <<"f","i","l","t","e","r">>, <<"s","e","l","e","c","t">>, <<"e","x","p","a","n","d">>, <<"o","r","d","e","r","b","y">>, <<"s","k","i","p">>, <<"t","o","p">>,
     <<"c","o","u","n","t">>, <<"s","e","a","r","c","h">>, <<"f","o","r","m","a","t">> >>

QueryItems ==
  [alias        |-> <<"q","u","e","r","y","-","i","t","e","m","s">>,
   method       |-> <<"g","e","t">>,
   path         |-> <<"/","m","e","/","q">>,
   parameters   |-> [i \in 1..Len(OdataNames) |->
                       ParamDef(OdataNames[i], "Query")],
   mediaContent |-> FALSE]

\* a POST whose Body parameter has a schema: an object with the one field
\* Message, holding a string
SendMail ==
  [alias        |-> <<"s","e","n","d","-","m","a","i","l">>,
   method       |-> <<"p","o","s","t">>,
   path         |-> <<"/","m","e","/","s","e","n","d","M","a","i","l">>,
   parameters   |-> <<[name |-> <<"M","e","s","s","a","g","e">>, type |-> "Body",
                       schema |-> << <<<<"M","e","s","s","a","g","e">>>> >>]>>,
   mediaContent |-> FALSE]

\* two media endpoints: one whose path template ends in /content, one that
\* is also declared by metadata (an error entry described as "Retrieved
\* media content", line 207)
GetContent ==
  [alias        |-> <<"g","e","t","-","c","o","n","t","e","n","t">>,
   method       |-> <<"g","e","t">>,
   path         |-> <<"/","m","e","/","f","/","c","o","n","t","e","n","t">>,
   parameters   |-> <<ParamDef(<<"t","o","p">>, "Query")>>,
   mediaContent |-> FALSE]

GetMedia ==
  [alias        |-> <<"g","e","t","-","m","e","d","i","a">>,
   method       |-> <<"g","e","t">>,
   path         |-> <<"/","m","e","/","m","/","c","o","n","t","e","n","t">>,
   parameters   |-> <<ParamDef(<<"t","o","p">>, "Query")>>,
   mediaContent |-> TRUE]

\* a GET with two Path parameters, the name of one a prefix of the other's,
\* in both placeholder forms
GetThing ==
  [alias        |-> <<"g","e","t","-","t","h","i","n","g">>,
   method       |-> <<"g","e","t">>,
   path         |-> <<"/","t","/","{","i","d","T","y","p","e","}","/","{","i","d","}","/",":","i","d","T","y","p","e","/",":","i","d">>,
   parameters   |-> <<ParamDef(<<"i","d">>, "Path"), ParamDef(<<"i","d","T","y","p","e">>, "Path")>>,
   mediaContent |-> FALSE]

Endpoints ==
  <<ListItems, SendItem, PatchCtl, QueryItems, SendMail, GetContent, GetMedia,
    GetThing>>

\* an endpoints.json entry, as an optional value
Config(tz) ==
  <<[supportsTimezone |-> tz, returnDownloadUrl |-> FALSE,
     acceptHeader |-> <<>>]>>

\* an entry of a media endpoint
MediaConfig(dl) ==
  <<[supportsTimezone |-> FALSE, returnDownloadUrl |-> dl,
     acceptHeader |-> <<"t","e","x","t","/","v","t","t">>]>>

\* endpointsData.find(e => e.toolName === tool.alias)
EndpointConfig(t) ==
  IF t.alias = <<"l","i","s","t","-","i","t","e","m","s">> THEN Config(TRUE)
  ELSE IF t.alias = <<"p","a","t","c","h","-","c","t","l">> THEN Config(TRUE)
  ELSE IF t.alias = <<"g","e","t","-","c","o","n","t","e","n","t">> THEN MediaConfig(TRUE)
  ELSE IF t.alias = <<"g","e","t","-","m","e","d","i","a">> THEN MediaConfig(FALSE)
  ELSE <<>>

\* the read-only filter of registerGraphTools (359-363) and of
\* buildToolsRegistry (456-458)
IsRegisteredAlways(t, ro) == TRUE

IsRegistered(t, ro) == ~(ro /\ ToUpperCase(t.method) # <<"G","E","T">>)

\* buildToolsRegistry (graph-tools.ts 440-464): alias -> endpoint, as an
\* optional value, for a server started with readOnly = ro
RegistryGet(ro, name) ==
  LET hits == {i \in 1..Len(Endpoints) :
                 Endpoints[i].alias = name /\ IsRegistered(Endpoints[i], ro)}
  IN  IF hits = {} THEN <<>> ELSE <<Endpoints[CHOOSE i \in hits : TRUE]>>

\* the keys of the paramSchema that registerGraphTools registers for a tool
\* (graph-tools.ts 371-405)
SchemaKeys(t) ==
  {t.parameters[i].name : i \in 1..Len(t.parameters)}
  \cup (IF ToUpperCase(t.method) = <<"G","E","T">> /\ Includes(t.path, <<"/">>)
        THEN {<<"f","e","t","c","h","A","l","l","P","a","g","e","s">>} ELSE {})
  \cup {<<"i","n","c","l","u","d","e","H","e","a","d","e","r","s">>, <<"e","x","c","l","u","d","e","R","e","s","p","o","n","s","e">>}
  \cup (IF EndpointConfig(t) # <<>> /\ EndpointConfig(t)[1].supportsTimezone
        THEN {<<"t","i","m","e","z","o","n","e">>} ELSE {})

(***************************************************************************)
(* The external API behind graphClient.graphRequest.  A server is a small  *)
(* graph of pages: every page has an optional value array and an optional  *)
(* next link to a page, so that next links may run on forever or point     *)
(* back to an earlier page.  The first request is answered with page 1.    *)
(***************************************************************************)
Digits == <<"1","2","3","4","5","6","7","8","9">>

PageItems(p, n) == [i \in 1..n |-> 10 * p + i]

\* a page has no value field, or a value array of MaxItems items
PageValues(p) == {<<>>, <<PageItems(p, MaxItems)>>}

Servers ==
  [pages : {f \in [1..NumPages -> [value : UNION {PageValues(p) : p \in 1..NumPages},
                                   next : 0..NumPages]] :
              \A p \in 1..NumPages : f[p].value \in PageValues(p)},
   count : {<<>>, <<0>>, <<7>>}]

\* the absolute URL of a next link, as new URL() parses it
Link(k) ==
  [pathname |-> (IF k % 2 = 1 THEN <<"/","v","1",".","0">> ELSE <<"/","b","e","t","a">>) \o <<"/","m","e","/","i","t","e","m","s">>,
   search   |-> << <<<<"$","s","k","i","p","t","o","k","e","n">>, <<Digits[k]>> >>,
                   <<<<"$","t","o","p">>, <<"5">>>> >>,
   page     |-> k]

EmptyDoc ==
  [value |-> <<>>, nextLink |-> <<>>, count |-> <<>>, error |-> <<>>,
   tip |-> <<>>]

\* the JSON body of page p of server srv
PageDoc(srv, p) ==
  [value    |-> srv.pages[p].value,
   nextLink |-> IF srv.pages[p].next = 0 THEN <<>>
                ELSE <<Link(srv.pages[p].next)>>,
   count    |-> IF p = 1 THEN srv.count ELSE <<>>,
   error    |-> <<>>,
   tip      |-> <<>>]

ErrorDoc(alias, message) ==
  [EmptyDoc EXCEPT !.error = <<[alias |-> alias, message |-> message]>>]

JsonText(doc) == [kind |-> "json", doc |-> doc]

\* what graphRequest can resolve to, for a request that is answered with
\* page p: the page, a logical error, a non-JSON text, an empty text, no
\* content block, or no response object (or one without a content array)
Outcomes == {"page", "error", "nonjson", "emptytext", "nocontent", "null"}

GraphResponse(out, srv, p) ==
  [isNull  |-> out = "null",
   content |-> CASE out = "page"      -> <<JsonText(PageDoc(srv, p))>>
                 [] out = "error"     -> <<JsonText(ErrorDoc(<<>>, "graph"))>>
                 [] out = "nonjson"   -> <<[kind |-> "nonjson", doc |-> EmptyDoc]>>
                 [] out = "emptytext" -> <<[kind |-> "empty", doc |-> EmptyDoc]>>
                 [] OTHER             -> <<>>,
   isError |-> out = "error"]

\* the messages of the errors a network call can raise
ErrorMessages == {"ETIMEDOUT", "403 Forbidden"}

\* response?.content?.[0]?.text is truthy
HasText(resp) ==
  ~resp.isNull /\ resp.content # <<>> /\ resp.content[1].kind # "empty"

(***************************************************************************)
(* One tool invocation: its inputs and the state of executeGraphTool.      *)
(***************************************************************************)
VARIABLES
  readOnly,         \* the server's read-only option
  entry,            \* "tool": a registered tool's handler; "execute-tool"
  tool_name,        \* the tool called
  params,           \* the caller's parameter map, in Object.entries order
  server,           \* the external API's pages
  pc,               \* "init", "awaitFirst", "awaitNext", "done"
  options,          \* the options of the first request
  lastReq,          \* the request handed to graphRequest last
  reqCount,         \* number of graphRequest calls issued
  response,         \* the first response (optional)
  combinedResponse, \* pagination: the parsed first page (optional)
  allItems,         \* pagination: the accumulated items
  nextLink,         \* pagination: the current next link (optional)
  pageCount,        \* pagination: the page counter
  paging,           \* "off", "running", "merged" (lines 266-280), "caught" (281-283)
  served,           \* pages the network answered with as JSON bodies (0: an error body)
  raised,           \* the message of the error the first graphRequest raised (optional)
  bound,            \* path, queryParams, headers, body after the binding loop
  answered,         \* number of graphRequest calls that have returned or raised
  result            \* the returned envelope (optional)

execVars ==
  <<readOnly, entry, tool_name, params, server, pc, options, lastReq,
    reqCount, answered,
    response, combinedResponse, allItems, nextLink, pageCount, paging,
    served, raised, bound, result>>

(***************************************************************************)
(* The HTTP server (server.ts): concurrent /mcp requests on one server     *)
(* instance, which holds one GraphClient.                                  *)
(***************************************************************************)
VARIABLES
  httpMethod,       \* per request: "GET" or "POST"
  microsoftAuth,    \* per request: req.microsoftAuth.accessToken (optional)
  httpPc,           \* per request: "received", "connecting", "awaitGraph", "done"
  clientToken,      \* the access token held by this.graphClient (optional)
  callTokens,       \* per request: the token each of its graph calls carried
  httpPages         \* per request: the page counter of its invocation

httpVars ==
  <<httpMethod, microsoftAuth, httpPc, clientToken, callTokens, httpPages>>

(***************************************************************************)
(* One getTranscriptByMeeting invocation (composite-tools.ts).             *)
(***************************************************************************)
VARIABLES
  subjectContains,  \* params.subjectContains
  window,           \* params.startTime, endTime, timezone (optional values)
  wpc,              \* "init", "awaitCalendar", "awaitEvent", "awaitMeetings",
                    \* "awaitTranscripts", "awaitContent", "done"
  calls,            \* the makeRequest calls issued, in order
  replies,          \* how each call ended: "data", "null" or "throw"
  thrown,           \* the message of the error a call raised (optional)
  events,           \* calendarData.value || []
  matchingEvent,    \* optional
  eventData,        \* optional
  meetingsData,     \* optional
  transcriptsData,  \* optional
  contentData,      \* optional
  workflowResult    \* the returned envelope (optional)

workflowVars ==
  <<subjectContains, window, wpc, calls, replies, thrown, events,
    matchingEvent, eventData, meetingsData, transcriptsData,
    contentData, workflowResult>>

\* the search-tools handler of discovery mode (graph-tools.ts 475-549)
VARIABLES
  searchArgs,       \* the arguments query, category, limit (optional values)
  results,          \* the results array
  searchPc,         \* "init" | "done"
  searchResult      \* the document of the returned envelope (optional)

searchVars == <<searchArgs, results, searchPc, searchResult>>

\* tool registration at start-up (graph-tools.ts 330-464)
VARIABLES
  serverOptions,    \* readOnly, orgMode, enabledTools (optional pattern)
  apiEndpoints,     \* api.endpoints, each with its endpoints.json entry
  registered,       \* names registerGraphTools registered (optional)
  toolsMap          \* names of the map of buildToolsRegistry (optional)

registerVars == <<serverOptions, apiEndpoints, registered, toolsMap>>

\* the OAuth endpoints GET /authorize and POST /token (server.ts 188-317)
VARIABLES
  secrets,          \* clientId, clientSecret, tenantId of the server
  oauthReq,         \* the request: route, query, body
  oauthPc,          \* "received" | "awaitExchange" | "done"
  exchangeCalls,    \* calls of exchangeCodeForToken / refreshAccessToken
  responses         \* the responses sent, in order

oauthVars ==
  <<secrets, oauthReq, oauthPc, exchangeCalls, responses>>

serverVars == <<registerVars, oauthVars>>

vars == <<execVars, httpVars, workflowVars, searchVars, serverVars>>

MaxPageCount == 100

\* the network answers at most this many calls of one invocation
MaxCalls == 110

NoOptions ==
  [method |-> <<>>, headers |-> <<>>, body |-> <<>>, rawResponse |-> FALSE,
   includeHeaders |-> FALSE, excludeResponse |-> FALSE, queryParams |-> <<>>]

NoReq == [path |-> <<>>, query |-> <<>>, options |-> NoOptions]

NoBound ==
  [path |-> <<>>, queryParams |-> <<>>, headers |-> <<>>, body |-> <<>>]

\* toolsRegistry.get(name) on this server
ToolsRegistryGet(name) == RegistryGet(readOnly, name)

Tool == ToolsRegistryGet(tool_name)[1]

\* the catch of lines 314-327
ErrorEnvelopeNoMessage(alias, message) ==
  [content |-> <<JsonText(ErrorDoc(alias, ""))>>, isError |-> TRUE]

ErrorEnvelope(alias, message) ==
  [content |-> <<JsonText(ErrorDoc(alias, message))>>, isError |-> TRUE]

\* lines 286-313: the envelope returned for a response; response.content
\* of a missing response object raises a TypeError, caught at line 314
EnvelopeUncaught(resp) ==
  [content |-> resp.content, isError |-> resp.isError]

Envelope(resp) ==
  IF resp.isNull
  THEN ErrorEnvelope(Tool.alias, "TypeError")
  ELSE [content |-> resp.content, isError |-> resp.isError]

\* the while condition of line 240
LoopGuardNoCap(link, count) ==
  link # <<>>

LoopGuard(link, count) ==
  link # <<>> /\ count < MaxPageCount

RECURSIVE SearchParams(_)
\* nextQueryParams of lines 247-250
SearchParams(search) ==
  IF search = <<>> THEN <<>>
  ELSE Put(SearchParams(SubSeq(search, 1, Len(search) - 1)),
           search[Len(search)][1], search[Len(search)][2])

\* lines 243-251: the follow-up request for a next link
NextRequestResend(link, opts) ==
  [path    |-> ReplaceFirst(link.pathname, <<"/","v","1",".","0">>, <<>>),
   query   |-> bound.queryParams \o SearchParams(link.search),
   options |-> [opts EXCEPT !.queryParams =
                  <<bound.queryParams \o SearchParams(link.search)>>]]

NextRequest(link, opts) ==
  [path    |-> ReplaceFirst(link.pathname, <<"/","v","1",".","0">>, <<>>),
   query   |-> SearchParams(link.search),
   options |-> [opts EXCEPT !.queryParams = <<SearchParams(link.search)>>]]

\* lines 270-274: the combined body
Merged(combined, items) ==
  [combined EXCEPT
     !.value    = <<items>>,
     !.count    = IF combined.count # <<>> /\ combined.count[1] # 0
                  THEN <<Len(items)>> ELSE combined.count,
     !.nextLink = <<>>]

\* line 276
WithText(resp, doc) ==
  [resp EXCEPT !.content = <<JsonText(doc)>> \o Tail(resp.content)]

\* line 257
Concat(items, value) == items \o value

\* the pagination try block failed: lines 281-283, then 286-313 with the
\* first response as it was received
Caught(resp, pages) ==
  /\ pc' = "done"
  /\ paging' = "caught"
  /\ response' = <<resp>>
  /\ served' = pages
  /\ result' = <<Envelope(resp)>>
  /\ UNCHANGED <<readOnly, entry, tool_name, params, server, options, lastReq,
                 reqCount, combinedResponse, allItems, nextLink, pageCount,
                 httpVars, workflowVars, searchVars, serverVars>>
  /\ UNCHANGED <<raised, bound>>

\* the loop has ended: lines 266-280, then 286-313
Complete(resp, combined, items, link, count, pages) ==
  /\ pc' = "done"
  /\ paging' = "merged"
  /\ combinedResponse' = <<Merged(combined, items)>>
  /\ allItems' = items
  /\ nextLink' = link
  /\ pageCount' = count
  /\ served' = pages
  /\ response' = <<WithText(resp, Merged(combined, items))>>
  /\ result' = <<Envelope(WithText(resp, Merged(combined, items)))>>
  /\ UNCHANGED <<readOnly, entry, tool_name, params, server, options, lastReq,
                 reqCount,
                 httpVars, workflowVars, searchVars, serverVars>>
  /\ UNCHANGED <<raised, bound>>

\* the head of the while loop (line 240) and, when it is entered, the body
\* up to the await of line 253
LoopPrefetch(resp, combined, items, link, count, pages) ==
  IF LoopGuard(link, count)
  THEN /\ pc' = "awaitNext"
       /\ paging' = "running"
       /\ response' = <<resp>>
       /\ combinedResponse' = <<combined>>
       /\ allItems' = items
       /\ nextLink' = link
       /\ pageCount' = count
       /\ served' = pages
       /\ lastReq' = NextRequest(link[1], options)
       /\ reqCount' = reqCount + 2
       /\ UNCHANGED <<readOnly, entry, tool_name, params, server, options, result,
                       raised, bound, httpVars, workflowVars, searchVars, serverVars>>
  ELSE Complete(resp, combined, items, link, count, pages)

Loop(resp, combined, items, link, count, pages) ==
  IF LoopGuard(link, count)
  THEN /\ pc' = "awaitNext"
       /\ paging' = "running"
       /\ response' = <<resp>>
       /\ combinedResponse' = <<combined>>
       /\ allItems' = items
       /\ nextLink' = link
       /\ pageCount' = count
       /\ served' = pages
       /\ lastReq' = NextRequest(link[1], options)
       /\ reqCount' = reqCount + 1
       /\ UNCHANGED <<readOnly, entry, tool_name, params, server, options, result,
                       raised, bound, httpVars, workflowVars, searchVars, serverVars>>
  ELSE Complete(resp, combined, items, link, count, pages)

\* the envelope of lines 570-581
NotFoundUnnamed(name) ==
  [content |-> <<JsonText(
      [ErrorDoc(<<>>, "Tool not found") EXCEPT
         !.tip = <<"Use search-tools to find available tools.">>])>>,
   isError |-> TRUE]

NotFound(name) ==
  [content |-> <<JsonText(
      [ErrorDoc(name, "Tool not found") EXCEPT
         !.tip = <<"Use search-tools to find available tools.">>])>>,
   isError |-> TRUE]

\* execute-tool with a name that is not in the registry (lines 568-582)
ExecuteToolNotFound ==
  /\ pc = "init"
  /\ entry = "execute-tool"
  /\ ToolsRegistryGet(tool_name) = <<>>
  /\ pc' = "done"
  /\ result' = <<NotFound(tool_name)>>
  /\ UNCHANGED answered
  /\ UNCHANGED <<readOnly, entry, tool_name, params, server, options, lastReq,
                 reqCount, response, combinedResponse, allItems, nextLink,
                 pageCount, paging, served,
                 httpVars, workflowVars, searchVars, serverVars>>
  /\ UNCHANGED <<raised, bound>>

\* executeGraphTool up to the await of line 230
Invoke ==
  /\ pc = "init"
  /\ ToolsRegistryGet(tool_name) # <<>>
  /\ LET req == BuildRequest(Tool, EndpointConfig(Tool), params) IN
       /\ lastReq' = req
       /\ options' = req.options
  /\ bound' = Bound(Tool, params)
  /\ reqCount' = 1
  /\ pc' = "awaitFirst"
  /\ UNCHANGED answered
  /\ UNCHANGED <<readOnly, entry, tool_name, params, server, response,
                 combinedResponse, allItems, nextLink, pageCount, paging,
                 served, result,
                 httpVars, workflowVars, searchVars, serverVars>>
  /\ UNCHANGED raised

\* the first graphRequest raises: the catch of lines 314-327
FirstRequestThrows ==
  /\ pc = "awaitFirst"
  /\ answered' = answered + 1
  /\ pc' = "done"
  /\ \E m \in ErrorMessages :
       /\ raised' = <<m>>
       /\ result' = <<ErrorEnvelope(Tool.alias, m)>>
  /\ UNCHANGED bound
  /\ UNCHANGED <<readOnly, entry, tool_name, params, server, options, lastReq,
                 reqCount, response, combinedResponse, allItems, nextLink,
                 pageCount, paging, served,
                 httpVars, workflowVars, searchVars, serverVars>>

\* the first graphRequest resolves: lines 230-240
FirstRequestReturns ==
  /\ pc = "awaitFirst"
  /\ answered' = answered + 1
  /\ \E out \in Outcomes :
       LET resp == GraphResponse(out, server, 1)
           doc  == resp.content[1].doc
       IN  IF ParamIsTrue(params, <<"f","e","t","c","h","A","l","l","P","a","g","e","s">>) /\ HasText(resp)
           THEN IF resp.content[1].kind = "nonjson"
                THEN Caught(resp, served)
                ELSE Loop(resp, doc,
                          IF doc.value # <<>> THEN doc.value[1] ELSE <<>>,
                          doc.nextLink, 1,
                          <<IF out = "page" THEN 1 ELSE 0>>)
           ELSE /\ pc' = "done"
                /\ response' = <<resp>>
                /\ result' = <<Envelope(resp)>>
                /\ UNCHANGED <<readOnly, entry, tool_name, params, server, options,
                               lastReq, reqCount, combinedResponse, allItems,
                               nextLink, pageCount, paging, served,
                               raised, bound, httpVars, workflowVars, searchVars, serverVars>>

\* a follow-up graphRequest raises: the catch of lines 281-283
NextRequestThrows ==
  /\ pc = "awaitNext"
  /\ reqCount <= MaxCalls
  /\ answered' = answered + 1
  /\ Caught(response[1], served)

\* a follow-up graphRequest resolves: lines 253-264
NextRequestReturns ==
  /\ pc = "awaitNext"
  /\ reqCount <= MaxCalls
  /\ answered' = answered + 1
  /\ \E out \in Outcomes :
       LET nextResponse == GraphResponse(out, server, nextLink[1].page)
           doc == nextResponse.content[1].doc
       IN  IF HasText(nextResponse)
           THEN IF nextResponse.content[1].kind = "nonjson"
                THEN Caught(response[1], served)
                ELSE Loop(response[1], combinedResponse[1],
                          IF doc.value # <<>>
                          THEN Concat(allItems, doc.value[1])
                          ELSE allItems,
                          doc.nextLink, pageCount + 1,
                          Append(served,
                                 IF out = "page" THEN nextLink[1].page ELSE 0))
           ELSE Complete(response[1], combinedResponse[1], allItems,
                         nextLink, pageCount, served)

(***************************************************************************)
(* server.ts: the /mcp handlers.  Every request handler runs up to its     *)
(* first await, and the handlers of concurrent requests interleave at the  *)
(* awaits.  this.graphClient is one object for the whole server.           *)
(***************************************************************************)
NumRequests == 2
MaxHttpPages == 2

Requests == 1..NumRequests

Tokens == {"tokenA", "tokenB"}

\* GraphClient.setOAuthTokens(accessToken, refreshToken): the client keeps
\* the access token
SetOAuthTokens(held, accessToken) == <<accessToken>>

\* the access token GraphClient.graphRequest sends: the one the client holds
GraphRequestToken(held) == held

\* GET /mcp and POST /mcp up to `await this.server!.connect(transport)`
\* (lines 335-352 and 377-394)
HandleMcp(r, method) ==
  /\ httpPc[r] = "received"
  /\ httpMethod[r] = method
  /\ clientToken' = IF microsoftAuth[r] # <<>>
                    THEN SetOAuthTokens(clientToken, microsoftAuth[r][1])
                    ELSE clientToken
  /\ httpPc' = [httpPc EXCEPT ![r] = "connecting"]
  /\ UNCHANGED <<httpMethod, microsoftAuth, callTokens, httpPages>>
  /\ UNCHANGED <<execVars, workflowVars, searchVars, serverVars>>

HandleMcpGet == \E r \in Requests : HandleMcp(r, "GET")

HandleMcpPost == \E r \in Requests : HandleMcp(r, "POST")

\* transport.handleRequest of a request that calls no Graph tool (a GET
\* stream, or a POST such as tools/list)
McpHandledWithoutCall ==
  \E r \in Requests :
    /\ httpPc[r] = "connecting"
    /\ httpPc' = [httpPc EXCEPT ![r] = "done"]
    /\ UNCHANGED <<httpMethod, microsoftAuth, clientToken, callTokens,
                   httpPages>>
    /\ UNCHANGED <<execVars, workflowVars, searchVars, serverVars>>

\* transport.handleRequest of a tools/call: the tool handler
\* (graph-tools.ts 425) runs executeGraphTool up to the await of line 230
McpToolCall ==
  \E r \in Requests :
    /\ httpPc[r] = "connecting"
    /\ httpMethod[r] = "POST"
    /\ httpPc' = [httpPc EXCEPT ![r] = "awaitGraph"]
    /\ callTokens' =
         [callTokens EXCEPT ![r] = Append(@, GraphRequestToken(clientToken))]
    /\ httpPages' = [httpPages EXCEPT ![r] = 1]
    /\ UNCHANGED <<httpMethod, microsoftAuth, clientToken>>
    /\ UNCHANGED <<execVars, workflowVars, searchVars, serverVars>>

\* the graph call of request r resolves and its pagination loop issues the
\* follow-up call (graph-tools.ts 240-253)
McpNextPage ==
  \E r \in Requests :
    /\ httpPc[r] = "awaitGraph"
    /\ httpPages[r] < MaxHttpPages
    /\ callTokens' =
         [callTokens EXCEPT ![r] = Append(@, GraphRequestToken(clientToken))]
    /\ httpPages' = [httpPages EXCEPT ![r] = @ + 1]
    /\ UNCHANGED <<httpMethod, microsoftAuth, httpPc, clientToken>>
    /\ UNCHANGED <<execVars, workflowVars, searchVars, serverVars>>

\* the graph call of request r resolves and the invocation returns
McpToolReturns ==
  \E r \in Requests :
    /\ httpPc[r] = "awaitGraph"
    /\ httpPc' = [httpPc EXCEPT ![r] = "done"]
    /\ UNCHANGED <<httpMethod, microsoftAuth, clientToken, callTokens,
                   httpPages>>
    /\ UNCHANGED <<execVars, workflowVars, searchVars, serverVars>>

(***************************************************************************)
(* composite-tools.ts: getTranscriptByMeeting                              *)
(***************************************************************************)
MaxEvents == 2

Date == "2026-01-16"

EventIds == <<"e1", "e2", "e3", "e4">>
StartTimes ==
  <<"2026-01-16T09:00", "2026-01-16T10:00", "2026-01-16T11:00",
    "2026-01-16T12:00">>

Subjects == {<<>>, <<<<"q","1"," ","p","L","A","N">>>>, <<<<"S","y","n","c">>>>}

SubjectFilters == {<<>>, <<"P","l","a","n">>, <<"S","Y","N","C">>, <<"x">>}

\* the calendar responses: at most n events, the i-th with id EventIds[i]
EventLists(n) ==
  UNION {
    {[i \in 1..k |->
        [id |-> EventIds[i], subject |-> sub[i], isOnlineMeeting |-> onl[i],
         start |-> IF st[i] THEN <<StartTimes[i]>> ELSE <<>>]] :
       sub \in [1..k -> Subjects],
       onl \in [1..k -> {<<>>, <<TRUE>>, <<FALSE>>}],
       st  \in [1..k -> BOOLEAN]} :
    k \in 0..n}

\* the envelopes getTranscriptByMeeting returns
Failure(text, about, error, lines) ==
  [isError |-> TRUE, text |-> text, about |-> about, error |-> error,
   lines |-> lines, doc |-> <<>>]

Success(doc) ==
  [isError |-> FALSE, text |-> "", about |-> <<>>, error |-> "",
   lines |-> <<>>, doc |-> <<doc>>]

\* the inner catch blocks (lines 112-117, 156-161, 179-184, 203-208, 237-242)
FailedNoMessage(prefix, message) == Failure(prefix, <<>>, "", <<>>)

Failed(prefix, message) == Failure(prefix, <<>>, message, <<>>)

\* the outer catch (lines 272-281)
Crashed(message) ==
  Failure("Error retrieving transcript: ", <<>>, message, <<>>)

NoMeetingsText   == "No meetings found on "
NoMatchText      == "No online meeting found matching "
NoJoinUrlText    == " does not have a Teams join URL"
NoMeetingText    == "Could not resolve online meeting for "
NoTranscriptText == "No transcripts found for meeting "

\* the predicate of events.find (lines 129-132)
Matches(event, filter) ==
  /\ event.subject # <<>>
  /\ Includes(ToLowerCase(event.subject[1]), ToLowerCase(filter))
  /\ event.isOnlineMeeting = <<TRUE>>

\* events.find(...): the first matching event, as an optional value
FindLast(evs, filter) ==
  LET hits == {i \in 1..Len(evs) : Matches(evs[i], filter)}
  IN  IF hits = {} THEN <<>>
      ELSE <<evs[CHOOSE i \in hits : \A j \in hits : j <= i]>>

Find(evs, filter) ==
  LET hits == {i \in 1..Len(evs) : Matches(evs[i], filter)}
  IN  IF hits = {} THEN <<>> ELSE <<evs[Min(hits)]>>

\* `${x}` of an optional string: undefined prints as "undefined"
Printed(opt) == IF opt = <<>> THEN "undefined" ELSE opt[1]

PrintedSubject(opt) == IF opt = <<>> THEN <<"u","n","d","e","f","i","n","e","d">> ELSE opt[1]

RECURSIVE AvailableMeetingsAll(_)
\* lines 135-138: one line per online meeting
AvailableMeetingsAll(evs) ==
  IF evs = <<>> THEN <<>>
  ELSE <<[subject |-> PrintedSubject(evs[1].subject),
          start |-> Printed(evs[1].start)]>>
       \o AvailableMeetingsAll(Tail(evs))

RECURSIVE AvailableMeetings(_)
AvailableMeetings(evs) ==
  IF evs = <<>> THEN <<>>
  ELSE (IF evs[1].isOnlineMeeting = <<TRUE>>
        THEN <<[subject |-> PrintedSubject(evs[1].subject),
                start |-> Printed(evs[1].start)]>>
        ELSE <<>>)
       \o AvailableMeetings(Tail(evs))

\* !joinUrl is false (line 165)
HasJoinUrlAlways(data) == TRUE

HasJoinUrl(data) == data.joinUrl # <<>> /\ data.joinUrl[1] # ""

\* lines 166-169: the matched meeting has no join URL
NoJoinUrlUnnamed(event) == Failure(NoJoinUrlText, <<>>, "", <<>>)

NoJoinUrl(event) == Failure(NoJoinUrlText, event.subject, "", <<>>)

\* lines 92-107: the calendar call; an empty time string is falsy
CalendarCall ==
  [step |-> "calendarView",
   arg  |-> (IF window.startTime # <<>> /\ window.startTime[1] # ""
             THEN <<Date, "T", window.startTime[1], ":00">>
             ELSE <<Date, "T00:00:00">>)
            \o
            (IF window.endTime # <<>> /\ window.endTime[1] # ""
             THEN <<Date, "T", window.endTime[1], ":00">>
             ELSE <<Date, "T23:59:59">>)
            \o
            <<IF window.timezone # <<>> THEN window.timezone[1] ELSE "UTC">>]

Call(step, arg) == [step |-> step, arg |-> arg]

\* a step ends the workflow with an envelope
Return(envelope, reply, message) ==
  /\ wpc' = "done"
  /\ workflowResult' = <<envelope>>
  /\ replies' = Append(replies, reply)
  /\ thrown' = IF reply = "throw" THEN <<message>> ELSE thrown
  /\ UNCHANGED <<subjectContains, window, calls>>

\* a step got its data and issues the next call
Proceed(nextPc, call) ==
  /\ wpc' = nextPc
  /\ calls' = Append(calls, call)
  /\ replies' = Append(replies, "data")
  /\ UNCHANGED <<subjectContains, window, thrown, workflowResult>>

\* lines 86-111
StartWorkflow ==
  /\ wpc = "init"
  /\ wpc' = "awaitCalendar"
  /\ calls' = <<CalendarCall>>
  /\ UNCHANGED <<subjectContains, window, replies, thrown, events,
                 matchingEvent, eventData, meetingsData, transcriptsData,
                 workflowResult>>
  /\ UNCHANGED contentData
  /\ UNCHANGED <<execVars, httpVars, searchVars, serverVars>>

CalendarThrows ==
  /\ wpc = "awaitCalendar"
  /\ \E m \in ErrorMessages :
       Return(Failed("Failed to query calendar: ", m), "throw", m)
  /\ UNCHANGED <<events, matchingEvent, eventData, meetingsData,
                 transcriptsData>>
  /\ UNCHANGED contentData
  /\ UNCHANGED <<execVars, httpVars, searchVars, serverVars>>

\* makeRequest resolves to no object: calendarData.value raises a TypeError
CalendarReturnsNull ==
  /\ wpc = "awaitCalendar"
  /\ Return(Crashed("TypeError"), "null", "")
  /\ UNCHANGED <<events, matchingEvent, eventData, meetingsData,
                 transcriptsData>>
  /\ UNCHANGED contentData
  /\ UNCHANGED <<execVars, httpVars, searchVars, serverVars>>

\* what calendarData.value can hold
CalendarResponses == EventLists(MaxEvents)

\* lines 119-155
CalendarReturns ==
  /\ wpc = "awaitCalendar"
  /\ \E evs \in CalendarResponses :
       /\ events' = evs
       /\ IF Len(evs) = 0
          THEN /\ Return(Failure(NoMeetingsText, <<Date>>, "", <<>>),
                         "data", "")
               /\ UNCHANGED matchingEvent
          ELSE IF Find(evs, subjectContains) = <<>>
          THEN /\ Return(Failure(NoMatchText, <<subjectContains>>, "",
                                 AvailableMeetings(evs)), "data", "")
               /\ UNCHANGED matchingEvent
          ELSE /\ matchingEvent' = Find(evs, subjectContains)
               /\ Proceed("awaitEvent",
                          Call("event", <<Find(evs, subjectContains)[1].id>>))
  /\ UNCHANGED <<eventData, meetingsData, transcriptsData>>
  /\ UNCHANGED contentData
  /\ UNCHANGED <<execVars, httpVars, searchVars, serverVars>>

EventThrows ==
  /\ wpc = "awaitEvent"
  /\ \E m \in ErrorMessages :
       Return(Failed("Failed to get event details: ", m), "throw", m)
  /\ UNCHANGED <<events, matchingEvent, eventData, meetingsData,
                 transcriptsData>>
  /\ UNCHANGED contentData
  /\ UNCHANGED <<execVars, httpVars, searchVars, serverVars>>

EventReturnsNull ==
  /\ wpc = "awaitEvent"
  /\ Return(Crashed("TypeError"), "null", "")
  /\ UNCHANGED <<events, matchingEvent, eventData, meetingsData,
                 transcriptsData>>
  /\ UNCHANGED contentData
  /\ UNCHANGED <<execVars, httpVars, searchVars, serverVars>>

\* lines 163-178; joinUrl is eventData.onlineMeeting?.joinUrl
EventReturns ==
  /\ wpc = "awaitEvent"
  /\ \E data \in [joinUrl : {<<>>, <<"">>, <<"https://teams/j1">>}] :
       /\ eventData' = <<data>>
       /\ IF ~HasJoinUrl(data)
          THEN Return(NoJoinUrl(matchingEvent[1]), "data", "")
          ELSE Proceed("awaitMeetings", Call("onlineMeetings", data.joinUrl))
  /\ UNCHANGED <<events, matchingEvent, meetingsData, transcriptsData>>
  /\ UNCHANGED contentData
  /\ UNCHANGED <<execVars, httpVars, searchVars, serverVars>>

MeetingsThrows ==
  /\ wpc = "awaitMeetings"
  /\ \E m \in ErrorMessages :
       Return(Failed("Failed to resolve meeting ID: ", m), "throw", m)
  /\ UNCHANGED <<events, matchingEvent, eventData, meetingsData,
                 transcriptsData>>
  /\ UNCHANGED contentData
  /\ UNCHANGED <<execVars, httpVars, searchVars, serverVars>>

MeetingsReturnsNull ==
  /\ wpc = "awaitMeetings"
  /\ Return(Crashed("TypeError"), "null", "")
  /\ UNCHANGED <<events, matchingEvent, eventData, meetingsData,
                 transcriptsData>>
  /\ UNCHANGED contentData
  /\ UNCHANGED <<execVars, httpVars, searchVars, serverVars>>

\* lines 186-202; value is meetingsData.value (optional)
MeetingsReturns ==
  /\ wpc = "awaitMeetings"
  /\ \E data \in [value : {<<>>, << <<>> >>,
                           << <<[id |-> "m2", organizer |-> <<"ann@x">>],
                                [id |-> "m1", organizer |-> <<>>]>> >>}] :
       /\ meetingsData' = <<data>>
       /\ IF data.value = <<>> \/ data.value[1] = <<>>
          THEN Return(Failure(NoMeetingText, matchingEvent[1].subject, "",
                              <<>>), "data", "")
          ELSE Proceed("awaitTranscripts",
                       Call("transcripts", <<data.value[1][1].id>>))
  /\ UNCHANGED <<events, matchingEvent, eventData, transcriptsData>>
  /\ UNCHANGED contentData
  /\ UNCHANGED <<execVars, httpVars, searchVars, serverVars>>

TranscriptsThrows ==
  /\ wpc = "awaitTranscripts"
  /\ \E m \in ErrorMessages :
       Return(Failed("Failed to list transcripts: ", m), "throw", m)
  /\ UNCHANGED <<events, matchingEvent, eventData, meetingsData,
                 transcriptsData>>
  /\ UNCHANGED contentData
  /\ UNCHANGED <<execVars, httpVars, searchVars, serverVars>>

TranscriptsReturnsNull ==
  /\ wpc = "awaitTranscripts"
  /\ Return(Crashed("TypeError"), "null", "")
  /\ UNCHANGED <<events, matchingEvent, eventData, meetingsData,
                 transcriptsData>>
  /\ UNCHANGED contentData
  /\ UNCHANGED <<execVars, httpVars, searchVars, serverVars>>

\* lines 210-236; value is transcriptsData.value (optional)
TranscriptsReturns ==
  /\ wpc = "awaitTranscripts"
  /\ \E data \in [value : {<<>>, << <<>> >>,
                           << <<[id |-> "t2"], [id |-> "t1"]>> >>}] :
       /\ transcriptsData' = <<data>>
       /\ IF data.value = <<>> \/ Len(data.value[1]) = 0
          THEN Return(Failure(NoTranscriptText, matchingEvent[1].subject, "",
                              <<>>), "data", "")
          ELSE Proceed("awaitContent",
                       Call("content",
                            <<meetingsData[1].value[1][1].id,
                              data.value[1][1].id>>))
  /\ UNCHANGED <<events, matchingEvent, eventData, meetingsData>>
  /\ UNCHANGED contentData
  /\ UNCHANGED <<execVars, httpVars, searchVars, serverVars>>

ContentThrows ==
  /\ wpc = "awaitContent"
  /\ \E m \in ErrorMessages :
       Return(Failed("Failed to fetch transcript content: ", m), "throw", m)
  /\ UNCHANGED <<events, matchingEvent, eventData, meetingsData,
                 transcriptsData>>
  /\ UNCHANGED contentData
  /\ UNCHANGED <<execVars, httpVars, searchVars, serverVars>>

ContentReturnsNull ==
  /\ wpc = "awaitContent"
  /\ Return(Crashed("TypeError"), "null", "")
  /\ UNCHANGED <<events, matchingEvent, eventData, meetingsData,
                 transcriptsData>>
  /\ UNCHANGED contentData
  /\ UNCHANGED <<execVars, httpVars, searchVars, serverVars>>

\* contentData.rawResponse || contentData.message || 'No content' (line 247)
VttContent(data) ==
  IF data.rawResponse # <<>> /\ data.rawResponse[1] # ""
  THEN data.rawResponse[1]
  ELSE IF data.message # <<>> /\ data.message[1] # ""
  THEN data.message[1]
  ELSE "No content"

\* lines 244-270
ContentReturns ==
  /\ wpc = "awaitContent"
  /\ \E data \in [rawResponse : {<<>>, <<"">>, <<"WEBVTT 00:01 hello">>},
                  message : {<<>>, <<"OK!">>}] :
       /\ contentData' = <<data>>
       /\ Return(Success(
                [subject      |-> matchingEvent[1].subject,
                 start        |-> matchingEvent[1].start,
                 organizer    |->
                   IF meetingsData[1].value[1][1].organizer # <<>>
                   THEN meetingsData[1].value[1][1].organizer[1]
                   ELSE "unknown",
                 transcriptId |-> transcriptsData[1].value[1][1].id,
                 content      |-> VttContent(data)]),
                 "data", "")
  /\ UNCHANGED <<events, matchingEvent, eventData, meetingsData,
                 transcriptsData>>
  /\ UNCHANGED <<execVars, httpVars, searchVars, serverVars>>

(***************************************************************************)
(* The invocations explored.                                               *)
(***************************************************************************)
MaxParams == 2

\* a server whose pages follow one another and all carry items
ChainServer ==
  [pages |-> [p \in 1..NumPages |->
                [value |-> <<PageItems(p, MaxItems)>>,
                 next  |-> IF p < NumPages THEN p + 1 ELSE 0]],
   count |-> <<7>>]

ParamEntries ==
  { <<<<"f","e","t","c","h","A","l","l","P","a","g","e","s">>, Bool(TRUE)>>,
    <<<<"f","e","t","c","h","A","l","l","P","a","g","e","s">>, Str(<<"Z","f">>)>>,
    <<<<"t","i","m","e","z","o","n","e">>, Str(<<"Z","t">>)>>,
    <<<<"t","i","m","e","z","o","n","e">>, Str(<<>>)>>,
    <<<<"f","i","l","t","e","r">>, Str(<<"Z","q">>)>>,
    <<<<"i","n","c","l","u","d","e","H","e","a","d","e","r","s">>, Bool(TRUE)>>,
    <<<<"i","n","c","l","u","d","e","H","e","a","d","e","r","s">>, Str(<<"Z","h">>)>>,
    <<<<"e","x","c","l","u","d","e","R","e","s","p","o","n","s","e">>, Str(<<"Z","e">>)>>,
    <<<<"t","o","p">>, Str(<<"5">>)>>,
    <<<<"b","o","d","y">>, Str(<<"Z","b">>)>> }

\* parameter maps of at most n entries with distinct keys, in every order
ParamMaps(n) ==
  {m \in UNION {[1..k -> ParamEntries] : k \in 0..n} :
     \A i, j \in 1..Len(m) : i # j => m[i][1] # m[j][1]}

PagingParamMaps ==
  { <<>>,
    << <<<<"f","e","t","c","h","A","l","l","P","a","g","e","s">>, Bool(TRUE)>> >>,
    << <<<<"f","e","t","c","h","A","l","l","P","a","g","e","s">>, Str(<<"t","r","u","e">>)>> >>,
    << <<<<"t","o","p">>, Str(<<"5">>)>> >> }

\* the reserved query names, bare and with the "$" marker, each with a
\* value of its own, and letter-case variants of two of them
OdataEntries ==
  {<<OdataNames[i], Str(<<Digits[i]>>)>> : i \in 1..Len(OdataNames)}
  \cup
  {<<<<"$">> \o OdataNames[i], Str(<<Digits[i]>>)>> :
     i \in 1..Len(OdataNames)}
  \cup
  { <<<<"T","o","p">>, Str(<<"6">>)>>, <<<<"$","T","O","P">>, Str(<<"6">>)>>,
    <<<<"F","i","l","t","e","r">>, Str(<<"1">>)>>, <<<<"$","F","I","L","T","E","R">>, Str(<<"1">>)>> }

OdataParamMaps(n) ==
  {m \in UNION {[1..k -> OdataEntries] : k \in 0..n} :
     \A i, j \in 1..Len(m) : i # j => m[i][1] # m[j][1]}

\* values for a body: strings, booleans, and a string nested in an object
BodyValues ==
  { Str(<<"Z","b">>), Str(<<>>), Bool(TRUE), Bool(FALSE),
    Wrap(<<"M","e","s","s","a","g","e">>, Str(<<"Z","b">>)), Wrap(<<"o","t","h","e","r">>, Str(<<"Z","b">>)) }

BodyEntries == {<<"M","e","s","s","a","g","e">>, <<"b","o","d","y">>} \X BodyValues

BodyParamMaps(n) ==
  {m \in UNION {[1..k -> BodyEntries] : k \in 0..n} :
     \A i, j \in 1..Len(m) : i # j => m[i][1] # m[j][1]}

\* the maps with some of two entries, in every order
PairMaps(a, b) == {<<>>, <<a>>, <<b>>, <<a, b>>, <<b, a>>}

Scenarios ==
  LET all ==
        [readOnly : {FALSE},
         entry : {"execute-tool"},
         tool_name : {<<"l","i","s","t","-","i","t","e","m","s">>, <<"s","e","n","d","-","i","t","e","m">>},
         params : PagingParamMaps,
         server : Servers]
        \cup
        [readOnly : BOOLEAN,
         entry : {"tool", "execute-tool"},
         tool_name : {<<"p","a","t","c","h","-","c","t","l">>, <<"l","i","s","t","-","i","t","e","m","s">>, <<"s","e","n","d","-","i","t","e","m">>,
                      <<"n","o","-","s","u","c","h","-","t","o","o","l">>},
         params : ParamMaps(MaxParams),
         server : {ChainServer}]
        \cup
        [readOnly : {FALSE},
         entry : {"execute-tool"},
         tool_name : {<<"q","u","e","r","y","-","i","t","e","m","s">>},
         params : OdataParamMaps(MaxParams),
         server : {ChainServer}]
        \cup
        [readOnly : BOOLEAN,
         entry : {"execute-tool"},
         tool_name : {<<"s","e","n","d","-","m","a","i","l">>, <<"p","a","t","c","h","-","c","t","l">>},
         params : BodyParamMaps(MaxParams),
         server : {ChainServer}]
        \cup
        [readOnly : {FALSE},
         entry : {"tool"},
         tool_name : {<<"g","e","t","-","c","o","n","t","e","n","t">>, <<"g","e","t","-","m","e","d","i","a">>},
         params : PagingParamMaps,
         server : {ChainServer}]
        \cup
        [readOnly : {FALSE},
         entry : {"tool"},
         tool_name : {<<"g","e","t","-","t","h","i","n","g">>},
         params : PairMaps(<<<<"i","d">>, Str(<<"7">>)>>, <<<<"i","d","T","y","p","e">>, Str(<<"k">>)>>),
         server : {ChainServer}]
        \cup
        [readOnly : {FALSE},
         entry : {"execute-tool"},
         tool_name : {<<"l","i","s","t","-","i","t","e","m","s">>},
         params : PairMaps(<<<<"t","o","p">>, Str(<<"5">>)>>, <<<<"$","t","o","p">>, Str(<<"9">>)>>),
         server : {ChainServer}]
  IN  {sc \in all :
         sc.entry = "tool" =>
           /\ RegistryGet(sc.readOnly, sc.tool_name) # <<>>
           /\ Keys(sc.params) \subseteq
                SchemaKeys(RegistryGet(sc.readOnly, sc.tool_name)[1])}

\* the state at the entry of executeGraphTool, for an invocation drawn
\* from the set S
InitExecFrom(S) ==
  /\ \E sc \in S :
       /\ readOnly = sc.readOnly
       /\ entry = sc.entry
       /\ tool_name = sc.tool_name
       /\ params = sc.params
       /\ server = sc.server
  /\ pc = "init"
  /\ options = NoOptions
  /\ lastReq = NoReq
  /\ reqCount = 0
  /\ answered = 0
  /\ response = <<>>
  /\ combinedResponse = <<>>
  /\ allItems = <<>>
  /\ nextLink = <<>>
  /\ pageCount = 0
  /\ paging = "off"
  /\ served = <<>>
  /\ raised = <<>>
  /\ bound = NoBound
  /\ result = <<>>

\* no invocation of executeGraphTool is under way
InitExec == InitExecFrom(Scenarios)

\* no Graph tool is being served, on a server started with readOnly = ro
IdleExecIn(ro) ==
  /\ readOnly = ro
  /\ entry = "tool"
  /\ tool_name = <<>>
  /\ params = <<>>
  /\ server = ChainServer
  /\ pc = "done"
  /\ options = NoOptions
  /\ lastReq = NoReq
  /\ reqCount = 0
  /\ answered = 0
  /\ response = <<>>
  /\ combinedResponse = <<>>
  /\ allItems = <<>>
  /\ nextLink = <<>>
  /\ pageCount = 0
  /\ paging = "off"
  /\ served = <<>>
  /\ raised = <<>>
  /\ bound = NoBound
  /\ result = <<>>

IdleExec == IdleExecIn(FALSE)

InitHttp ==
  /\ httpMethod \in [Requests -> {"GET", "POST"}]
  /\ microsoftAuth \in [Requests -> {<<>>} \cup {<<t>> : t \in Tokens}]
  /\ httpPc = [r \in Requests |-> "received"]
  /\ clientToken = <<>>
  /\ callTokens = [r \in Requests |-> <<>>]
  /\ httpPages = [r \in Requests |-> 0]

\* no HTTP request is being served
IdleHttp ==
  /\ httpMethod = [r \in Requests |-> "GET"]
  /\ microsoftAuth = [r \in Requests |-> <<>>]
  /\ httpPc = [r \in Requests |-> "done"]
  /\ clientToken = <<>>
  /\ callTokens = [r \in Requests |-> <<>>]
  /\ httpPages = [r \in Requests |-> 0]

InitWorkflow ==
  /\ \/ /\ subjectContains \in SubjectFilters
        /\ window = [startTime |-> <<>>, endTime |-> <<>>, timezone |-> <<>>]
     \/ /\ subjectContains = <<"P","l","a","n">>
        /\ window = [startTime |-> <<"12:00">>, endTime |-> <<"13:00">>,
                     timezone |-> <<"America/Chicago">>]
  /\ wpc = "init"
  /\ calls = <<>>
  /\ replies = <<>>
  /\ thrown = <<>>
  /\ events = <<>>
  /\ matchingEvent = <<>>
  /\ eventData = <<>>
  /\ meetingsData = <<>>
  /\ transcriptsData = <<>>
  /\ contentData = <<>>
  /\ workflowResult = <<>>

\* search-tools is not being served
IdleSearch ==
  /\ searchArgs = [query |-> <<>>, category |-> <<>>, limit |-> <<>>]
  /\ results = <<>>
  /\ searchPc = "done"
  /\ searchResult = <<>>

\* no registration is under way
IdleRegister ==
  /\ serverOptions = [readOnly |-> FALSE, orgMode |-> FALSE,
                      enabledTools |-> <<>>]
  /\ apiEndpoints = <<>>
  /\ registered = <<>>
  /\ toolsMap = <<>>

\* no OAuth request is being served
IdleOAuth ==
  /\ secrets = [clientId |-> <<>>, clientSecret |-> <<>>, tenantId |-> <<>>]
  /\ oauthReq = [route |-> "", query |-> <<>>, body |-> <<>>]
  /\ oauthPc = "done"
  /\ exchangeCalls = <<>>
  /\ responses = <<>>

IdleServer == IdleRegister /\ IdleOAuth

\* no getTranscriptByMeeting invocation is under way
IdleWorkflow ==
  /\ subjectContains = <<>>
  /\ window = [startTime |-> <<>>, endTime |-> <<>>, timezone |-> <<>>]
  /\ wpc = "done"
  /\ calls = <<>>
  /\ replies = <<>>
  /\ thrown = <<>>
  /\ events = <<>>
  /\ matchingEvent = <<>>
  /\ eventData = <<>>
  /\ meetingsData = <<>>
  /\ transcriptsData = <<>>
  /\ contentData = <<>>
  /\ workflowResult = <<>>

(***************************************************************************)
(* Spec: one invocation of a Graph tool.                                   *)
(***************************************************************************)
Init == InitExec /\ IdleHttp /\ IdleWorkflow /\ IdleSearch /\ IdleServer

Next ==
  \/ ExecuteToolNotFound
  \/ Invoke
  \/ FirstRequestThrows
  \/ FirstRequestReturns
  \/ NextRequestThrows
  \/ NextRequestReturns

Spec == Init /\ [][Next]_vars

(***************************************************************************)
(* SpecHttp: concurrent /mcp requests on one server instance.              *)
(***************************************************************************)
HttpInit == IdleExec /\ InitHttp /\ IdleWorkflow /\ IdleSearch /\ IdleServer

HttpNext ==
  \/ HandleMcpGet
  \/ HandleMcpPost
  \/ McpHandledWithoutCall
  \/ McpToolCall
  \/ McpNextPage
  \/ McpToolReturns

SpecHttp == HttpInit /\ [][HttpNext]_vars

(***************************************************************************)
(* SpecWorkflow: one invocation of get-transcript-by-meeting.              *)
(***************************************************************************)
WorkflowInit == IdleExec /\ IdleHttp /\ InitWorkflow /\ IdleSearch /\ IdleServer

WorkflowNext ==
  \/ StartWorkflow
  \/ CalendarThrows
  \/ CalendarReturnsNull
  \/ CalendarReturns
  \/ EventThrows
  \/ EventReturnsNull
  \/ EventReturns
  \/ MeetingsThrows
  \/ MeetingsReturnsNull
  \/ MeetingsReturns
  \/ TranscriptsThrows
  \/ TranscriptsReturnsNull
  \/ TranscriptsReturns
  \/ ContentThrows
  \/ ContentReturnsNull
  \/ ContentReturns

SpecWorkflow == WorkflowInit /\ [][WorkflowNext]_vars

(***************************************************************************)
(* Properties of the pagination loop.                                      *)
(***************************************************************************)
FollowUps == reqCount - 1

\* the items of the JSON bodies the network answered with, in fetch order
RECURSIVE ServedItems(_)
ServedItems(pages) ==
  IF pages = <<>> THEN <<>>
  ELSE (IF pages[1] # 0 /\ server.pages[pages[1]].value # <<>>
        THEN server.pages[pages[1]].value[1] ELSE <<>>)
       \o ServedItems(Tail(pages))

ItemsOf(doc) == IF doc.value = <<>> THEN <<>> ELSE doc.value[1]

ResultDoc == result[1].content[1].doc

\* C1: in one invocation the number of follow-up requests issued after the
\* first request never exceeds 100, whatever the network answers (next
\* links on every page, next links that form a cycle).
C1_FollowUpsBounded == reqCount > 0 => FollowUps <= 100

C1_Witness ==
  /\ pc = "done" /\ paging = "merged"
  /\ ParamIsTrue(params, <<"f","e","t","c","h","A","l","l","P","a","g","e","s">>)
  /\ pageCount = MaxPageCount
  /\ FollowUps = MaxPageCount - 1

\* C2: when a follow-up request raises an error or a follow-up body fails
\* to parse after at least one follow-up page was merged, the invocation
\* returns a non-error envelope whose items are the first page's items
\* followed by the items of every page merged before the failure.
C2_PartialPagesKept ==
  (pc = "done" /\ paging = "caught" /\ Len(served) >= 2 /\ served[1] = 1)
  => /\ ~result[1].isError
     /\ result[1].content # <<>>
     /\ result[1].content[1].kind = "json"
     /\ ItemsOf(ResultDoc) = ServedItems(served)

\* C3: when the pagination loop ends, the returned body is the first page's
\* body with value equal to the concatenation, in fetch order, of the items
\* of all pages fetched, with @odata.count (whenever the first page carried
\* one) equal to the length of that array, and with no @odata.nextLink.
C3_MergedBody ==
  (pc = "done" /\ paging = "merged" /\ served[1] = 1)
  => /\ result[1].content[1].kind = "json"
     /\ ResultDoc.value = <<ServedItems(served)>>
     /\ (PageDoc(server, 1).count # <<>>
           => ResultDoc.count = <<Len(ServedItems(served))>>)
     /\ ResultDoc.nextLink = <<>>

\* C4: follow-up requests are issued only when the caller set fetchAllPages
\* to true and the operation's HTTP method is GET.
C4_FollowUpsOnlyForFlaggedGet ==
  FollowUps > 0
  => /\ ParamIsTrue(params, <<"f","e","t","c","h","A","l","l","P","a","g","e","s">>)
     /\ ToUpperCase(Tool.method) = <<"G","E","T">>

(***************************************************************************)
(* Properties of the parameter binder.                                     *)
(***************************************************************************)
ControlKeys ==
  { <<"f","e","t","c","h","A","l","l","P","a","g","e","s">>, <<"i","n","c","l","u","d","e","H","e","a","d","e","r","s">>, <<"e","x","c","l","u","d","e","R","e","s","p","o","n","s","e">>,
    <<"t","i","m","e","z","o","n","e">> }

\* C5: none of the control keys fetchAllPages, includeHeaders,
\* excludeResponse, timezone is bound as a query key, a header name, a path
\* substitution or the request body of the first request or of a follow-up
\* request, also when the endpoint declares a parameter of that name.
C5_ControlKeysNotBound ==
  reqCount > 0 =>
    \A i \in 1..Len(params) :
      params[i][1] \in ControlKeys =>
        LET key == params[i][1]
            val == StringOf(params[i][2])
        IN  /\ ~HasKey(lastReq.query, key)
            /\ ~Includes(lastReq.path, key \o <<"=">>)
            /\ val # <<>> => ~Includes(lastReq.path, encodeURIComponent(val))
            /\ ~HasKey(lastReq.options.headers, key)
            /\ lastReq.options.queryParams # <<>>
                 => ~HasKey(lastReq.options.queryParams[1], key)
            /\ lastReq.options.body # <<>>
                 => lastReq.options.body[1].v # params[i][2]
            /\ reqCount = 1 /\ Includes(Tool.path, <<"{">> \o key \o <<"}">>)
                 => Includes(lastReq.path, <<"{">> \o key \o <<"}">>)

C5_Witness ==
  /\ FollowUps >= 1
  /\ tool_name = <<"p","a","t","c","h","-","c","t","l">>
  /\ HasKey(params, <<"f","e","t","c","h","A","l","l","P","a","g","e","s">>)
  /\ HasKey(params, <<"t","i","m","e","z","o","n","e">>)

(***************************************************************************)
(* Properties of the HTTP server.                                          *)
(***************************************************************************)
\* C6: concurrent invocations share no mutable state: every network call
\* made on behalf of an invocation uses that invocation's own credentials,
\* for any interleaving of two /mcp requests at the awaits.
C6_OwnCredentials ==
  \A r \in Requests :
    microsoftAuth[r] # <<>> =>
      \A i \in 1..Len(callTokens[r]) : callTokens[r][i] = microsoftAuth[r]

(***************************************************************************)
(* Properties of getTranscriptByMeeting.                                   *)
(***************************************************************************)
StepOrder ==
  <<"calendarView", "event", "onlineMeetings", "transcripts", "content">>

\* the subject contains the filter, compared letter by letter without case
ContainsIgnoringCase(s, t) ==
  \E i \in 1..(Len(s) - Len(t) + 1) :
    \A j \in 1..Len(t) : LowerChar(s[i + j - 1]) = LowerChar(t[j])

Qualifies(e) ==
  /\ e.isOnlineMeeting = <<TRUE>>
  /\ e.subject # <<>>
  /\ ContainsIgnoringCase(e.subject[1], subjectContains)

Qualifying == {i \in 1..Len(events) : Qualifies(events[i])}

\* reply k carried data the workflow can go on with
Usable(k) ==
  /\ replies[k] = "data"
  /\ CASE k = 1 -> Qualifying # {}
       [] k = 2 -> eventData[1].joinUrl \notin {<<>>, <<"">>}
       [] k = 3 -> meetingsData[1].value \notin {<<>>, << <<>> >>}
       [] k = 4 -> transcriptsData[1].value \notin {<<>>, << <<>> >>}
       [] OTHER -> TRUE

\* C7: the calls are issued in the fixed order calendar view, event
\* details, online-meeting lookup, transcript list, transcript content;
\* call k+1 is issued only after call k returned usable data; once a call
\* raises an error no later call is issued and the envelope has isError =
\* true with that error's message; at most five calls are made, and exactly
\* five on full success.
C7_LinearSteps ==
  /\ Len(calls) <= 5
  /\ \A i \in 1..Len(calls) : calls[i].step = StepOrder[i]
  /\ Len(replies) <= Len(calls)
  /\ Len(calls) <= Len(replies) + 1
  /\ \A k \in 1..Len(replies) :
       /\ k < Len(calls) => Usable(k)
       /\ replies[k] = "throw" =>
            /\ k = Len(calls)
            /\ wpc = "done"
            /\ workflowResult[1].isError
            /\ thrown # <<>>
            /\ workflowResult[1].error = thrown[1]
  /\ (wpc = "done" /\ ~workflowResult[1].isError) =>
       /\ Len(calls) = 5
       /\ \A k \in 1..5 : replies[k] = "data"

C7_Witness ==
  /\ wpc = "done"
  /\ replies = <<"data", "data", "throw">>
  /\ Len(calls) = 3

\* the five empty-result conditions, by the step they arise at
EmptyCondition(k) ==
  /\ Len(replies) = (IF k = 1 THEN 1 ELSE k - 1)
  /\ replies[Len(replies)] = "data"
  /\ CASE k = 1 -> events = <<>>
       [] k = 2 -> events # <<>> /\ Qualifying = {}
       [] k = 3 -> eventData[1].joinUrl \in {<<>>, <<"">>}
       [] k = 4 -> meetingsData[1].value \in {<<>>, << <<>> >>}
       [] k = 5 -> transcriptsData[1].value \in {<<>>, << <<>> >>}

EmptyText(k) ==
  CASE k = 1 -> NoMeetingsText
    [] k = 2 -> NoMatchText
    [] k = 3 -> NoJoinUrlText
    [] k = 4 -> NoMeetingText
    [] k = 5 -> NoTranscriptText

\* C8: each of the five empty-result conditions ends the workflow at that
\* step with an isError = true envelope whose message differs for each of
\* the five conditions, and no call of a later step is issued.
C8_EmptyResults ==
  /\ \A k \in 1..5 :
       EmptyCondition(k) =>
         /\ wpc = "done"
         /\ workflowResult[1].isError
         /\ workflowResult[1].text = EmptyText(k)
         /\ workflowResult[1].error = ""
         /\ Len(calls) = Len(replies)
  /\ \A k, l \in 1..5 : k # l => EmptyText(k) # EmptyText(l)

C8_Witness ==
  /\ EmptyCondition(3)
  /\ wpc = "done"
  /\ Len(calls) = 2

\* C9: the selected meeting is the lowest-index event of the calendar
\* response that is an online meeting and whose subject contains
\* subjectContains without regard to case; an event that is not online or
\* has no subject is never selected, and the selected event is the one used
\* by all later steps.
C9_FirstMatchSelected ==
  (Len(replies) >= 1 /\ replies[1] = "data") =>
    IF Qualifying = {}
    THEN matchingEvent = <<>> /\ Len(calls) = 1
    ELSE /\ matchingEvent = <<events[Min(Qualifying)]>>
         /\ Len(calls) >= 2
         /\ calls[2].arg = <<events[Min(Qualifying)].id>>
         /\ (wpc = "done" /\ ~workflowResult[1].isError) =>
              workflowResult[1].doc[1].subject
                = events[Min(Qualifying)].subject
         /\ (wpc = "done" /\ workflowResult[1].isError
             /\ replies[Len(replies)] = "data") =>
              workflowResult[1].about = events[Min(Qualifying)].subject

C9_Witness ==
  /\ Cardinality(Qualifying) >= 2
  /\ Len(calls) >= 2

\* the online meetings of the calendar response, in response order
OnlineIdx == {i \in 1..Len(events) : events[i].isOnlineMeeting = <<TRUE>>}

NthOnline(n) ==
  events[CHOOSE i \in OnlineIdx :
           Cardinality({j \in OnlineIdx : j <= i}) = n]

\* C10: when the calendar response is non-empty but no online event matches
\* subjectContains, the envelope has isError = true, its text lists the
\* subject and start time of every online meeting of the response and of no
\* other event, and no further network call is issued.
C10_NoMatchListsOnlineMeetings ==
  (wpc = "done" /\ Len(replies) = 1 /\ replies[1] = "data"
   /\ events # <<>> /\ Qualifying = {})
  => /\ workflowResult[1].isError
     /\ workflowResult[1].text = NoMatchText
     /\ Len(calls) = 1
     /\ Len(workflowResult[1].lines) = Cardinality(OnlineIdx)
     /\ \A n \in 1..Cardinality(OnlineIdx) :
          /\ NthOnline(n).subject # <<>> =>
               workflowResult[1].lines[n].subject = NthOnline(n).subject[1]
          /\ NthOnline(n).start # <<>> =>
               workflowResult[1].lines[n].start = NthOnline(n).start[1]

C10_Witness ==
  /\ wpc = "done" /\ Len(replies) = 1 /\ replies[1] = "data"
  /\ Qualifying = {}
  /\ OnlineIdx # {}
  /\ \E i \in 1..Len(events) : i \notin OnlineIdx

\* C11: when the matched event is an online meeting but its detail
\* response carries no onlineMeeting.joinUrl (absent or empty), the
\* envelope has isError = true, its text is the missing-join-URL message
\* naming the matched meeting's subject, and the calls issued are the
\* calendar view and the event details only.
C11_NoJoinUrlNamesMeeting ==
  (Len(replies) = 2 /\ replies[2] = "data"
   /\ matchingEvent # <<>> /\ matchingEvent[1].isOnlineMeeting = <<TRUE>>
   /\ eventData[1].joinUrl \in {<<>>, <<"">>})
  => /\ wpc = "done"
     /\ workflowResult[1].isError
     /\ workflowResult[1].text = NoJoinUrlText
     /\ workflowResult[1].about = matchingEvent[1].subject
     /\ workflowResult[1].about # <<>>
     /\ workflowResult[1].doc = <<>>
     /\ Len(calls) = 2
     /\ \A i \in 1..Len(calls) :
          calls[i].step \notin {"onlineMeetings", "transcripts", "content"}

C11_Witness ==
  /\ wpc = "done"
  /\ Len(replies) = 2 /\ replies[2] = "data"
  /\ eventData # <<>> /\ eventData[1].joinUrl = <<>>
  /\ matchingEvent # <<>> /\ matchingEvent[1].subject = <<<<"q","1"," ","p","L","A","N">>>>

\* C12: when all five steps return data, the envelope has no isError, and
\* its document has meeting.subject equal to the matched event's subject,
\* transcript.id equal to the id of the first transcript of the list, and
\* content equal to the text the transcript-content call returned, for
\* every transcript text including the empty text.
C12_SuccessDocument ==
  (wpc = "done" /\ Len(replies) = 5 /\ \A k \in 1..5 : replies[k] = "data")
  => /\ ~workflowResult[1].isError
     /\ workflowResult[1].doc # <<>>
     /\ workflowResult[1].doc[1].subject = matchingEvent[1].subject
     /\ workflowResult[1].doc[1].transcriptId
          = transcriptsData[1].value[1][1].id
     /\ contentData[1].rawResponse # <<>> =>
          workflowResult[1].doc[1].content = contentData[1].rawResponse[1]

(***************************************************************************)
(* SpecTools: one invocation of either tool handler, a Graph tool or       *)
(* getTranscriptByMeeting.                                                 *)
(***************************************************************************)
ToolsInit ==
  \/ InitExec /\ IdleHttp /\ IdleWorkflow /\ IdleSearch /\ IdleServer
  \/ IdleExec /\ IdleHttp /\ InitWorkflow /\ IdleSearch /\ IdleServer

ToolsNext == Next \/ WorkflowNext

SpecTools == ToolsInit /\ [][ToolsNext]_vars

\* the caller's fetchAllPages is the boolean true
FlagIsTrue ==
  \E i \in 1..Len(params) :
    params[i][1] = <<"f","e","t","c","h","A","l","l","P","a","g","e","s">> /\ params[i][2] = Bool(TRUE)

\* the failures an executeGraphTool invocation can meet at its first call:
\* the call raised, resolved to no usable response object, or the API
\* signalled a logical error
ExecFailed ==
  \/ raised # <<>>
  \/ response # <<>> /\ (response[1].isNull \/ response[1].isError)

\* a text block that carries an error document
ExplainsFailure(block) ==
  /\ block.kind = "json"
  /\ block.doc.error # <<>>
  /\ block.doc.error[1].message # ""

C14_FirstCallErrorSurfaced ==
  raised # <<>> =>
    /\ pc = "done"
    /\ result # <<>>
    /\ result[1].isError
    /\ Len(result[1].content) = 1
    /\ result[1].content[1].kind = "json"
    /\ result[1].content[1].doc.error
         = <<[alias |-> Tool.alias, message |-> raised[1]]>>
    /\ reqCount = 1
    /\ response = <<>>
    /\ paging = "off"

C14_Witness ==
  /\ raised = <<"403 Forbidden">>
  /\ FlagIsTrue
  /\ pc = "done"

EqualIgnoringCase(a, b) ==
  /\ Len(a) = Len(b)
  /\ \A j \in 1..Len(a) : LowerChar(a[j]) = LowerChar(b[j])

\* a key without its leading "$"
Unmarked(key) ==
  IF key # <<>> /\ key[1] = "$" THEN Tail(key) ELSE key

\* the tool declares a parameter of this name and type
Declares(name, type) ==
  \E j \in 1..Len(Tool.parameters) :
    Tool.parameters[j].name = name /\ Tool.parameters[j].type = type

\* entry i of params is the only one that spells the reserved name n
OnlySpellingOf(n, i) ==
  /\ EqualIgnoringCase(Unmarked(params[i][1]), n)
  /\ \A j \in 1..Len(params) :
       j # i => ~EqualIgnoringCase(Unmarked(params[j][1]), n)

\* the value of entry i went out under the key "$" + n
SentUnderMarker(n, i) ==
  /\ Get(bound.queryParams, <<"$">> \o n) = <<StringOf(params[i][2])>>
  /\ \A q \in 1..Len(bound.queryParams) :
       EqualIgnoringCase(Unmarked(bound.queryParams[q][1]), n)
         => bound.queryParams[q][1] = <<"$">> \o n
  /\ reqCount = 1 =>
       Includes(lastReq.path,
                <<"%", "2", "4">> \o n \o <<"=">>
                  \o encodeURIComponent(StringOf(params[i][2])))

\* params with the key of entry i replaced
WithKey(i, key) ==
  [j \in 1..Len(params) |->
     IF j = i THEN <<key, params[j][2]>> ELSE params[j]]

\* C17: for every reserved name n (filter, select, expand, orderby, skip,
\* top, count, search, format) for which the endpoint declares a Query
\* parameter, invoking with the key n and invoking with the key "$" + n
\* (same value) produce the same outgoing query key "$" + n with the same
\* value.
C17_MarkerOptional ==
  pc = "awaitFirst" =>
    \A i \in 1..Len(params) : \A n \in odataParams :
      (/\ params[i][1] \in {n, <<"$">> \o n}
       /\ Declares(n, "Query")
       /\ OnlySpellingOf(n, i))
      => /\ SentUnderMarker(n, i)
         /\ Bound(Tool, WithKey(i, n)) = bound
         /\ Bound(Tool, WithKey(i, <<"$">> \o n)) = bound

C17_Witness ==
  /\ pc = "awaitFirst"
  /\ tool_name = <<"q","u","e","r","y","-","i","t","e","m","s">>
  /\ Len(params) = 2
  /\ params[1][1] = <<"$","s","k","i","p">>
  /\ params[2][1] = <<"f","o","r","m","a","t">>

\* C18: reserved query-parameter names are recognized without regard to
\* letter case: for every letter-case variant of a reserved name, with or
\* without the leading "$", on an endpoint that declares the corresponding
\* Query parameter, the value is bound into the query string under the
\* marker-prefixed lower-case key, as for the lower-case spelling.
C18_ReservedNamesIgnoreCase ==
  pc = "awaitFirst" =>
    \A i \in 1..Len(params) : \A n \in odataParams :
      (OnlySpellingOf(n, i) /\ Declares(n, "Query"))
      => SentUnderMarker(n, i)

\* the entries of params that set the body: a declared Body parameter, or
\* an undeclared parameter named body
BodySetters ==
  {i \in 1..Len(params) :
     /\ params[i][1] \notin ControlKeys
     /\ \/ Declares(params[i][1], "Body")
        \/ /\ params[i][1] = <<"b","o","d","y">>
           /\ \A j \in 1..Len(Tool.parameters) :
                Tool.parameters[j].name # <<"b","o","d","y">>}

LastBodySetter == CHOOSE i \in BodySetters : \A j \in BodySetters : j <= i

SchemaOf(name) ==
  (CHOOSE d \in {Tool.parameters[j] : j \in 1..Len(Tool.parameters)} :
     d.name = name).schema

\* C19: for a Body parameter whose definition has a schema: a value that
\* passes the schema is the body; a value that fails while the object
\* {paramName: value} passes makes that object the body; when both fail
\* the body is the supplied value unchanged; binding is never aborted and
\* no error is returned because of the mismatch.
C19_BodySchemaWrap ==
  (pc # "init" /\ ToolsRegistryGet(tool_name) # <<>> /\ BodySetters # {}) =>
    LET name  == params[LastBodySetter][1]
        value == params[LastBodySetter][2]
    IN  (Declares(name, "Body") /\ SchemaOf(name) # <<>>) =>
          LET schema == SchemaOf(name)[1] IN
          /\ SafeParse(schema, value) => bound.body = <<value>>
          /\ (~SafeParse(schema, value)
              /\ SafeParse(schema, Wrap(name, value)))
               => bound.body = <<Wrap(name, value)>>
          /\ (~SafeParse(schema, value)
              /\ ~SafeParse(schema, Wrap(name, value)))
               => bound.body = <<value>>
          /\ reqCount >= 1
          /\ raised = <<>> => response # <<>> \/ pc = "awaitFirst"
          /\ (pc = "done" /\ response # <<>> /\ ~response[1].isNull)
               => result[1].isError = response[1].isError

C19_Witness ==
  /\ pc = "done"
  /\ tool_name = <<"s","e","n","d","-","m","a","i","l">>
  /\ params = << <<<<"M","e","s","s","a","g","e">>, Str(<<"Z","b">>)>> >>
  /\ bound.body = <<Wrap(<<"M","e","s","s","a","g","e">>, Str(<<"Z","b">>))>>
  /\ options.body # <<>>

\* C20: a parameter literally named body that matches no parameter
\* definition of the endpoint is passed through as the request body
\* verbatim, for every value the caller supplies.
C20_BodyPassedThrough ==
  (pc # "init" /\ ToolsRegistryGet(tool_name) # <<>> /\ BodySetters # {}) =>
    LET name  == params[LastBodySetter][1]
        value == params[LastBodySetter][2]
    IN  (name = <<"b","o","d","y">> /\ ~Declares(name, "Body")) =>
          /\ bound.body = <<value>>
          /\ options.body = <<[raw |-> IsString(value), v |-> value]>>

(***************************************************************************)
(* Properties of the request that executeGraphTool builds.                 *)
(***************************************************************************)
\* the caller's map without the entries under key
Without(ps, key) == SelectSeq(ps, LAMBDA e : e[1] # key)

\* the caller supplied a timezone: a non-empty string under "timezone"
\* (an empty string names no timezone)
TimezoneSupplied ==
  \E i \in 1..Len(params) :
    /\ params[i][1] = <<"t","i","m","e","z","o","n","e">>
    /\ params[i][2].k = "str" /\ params[i][2].w = <<>>
    /\ params[i][2].s # <<>>

SupportsTimezone ==
  EndpointConfig(Tool) # <<>> /\ EndpointConfig(Tool)[1].supportsTimezone

\* C21: the first request carries a Prefer header with the value
\* outlook.timezone="<timezone>" exactly when the endpoint's configuration
\* declares timezone support and the caller supplied a timezone; for an
\* endpoint that does not support timezones the request is the one built
\* from the same parameters without the timezone.
C21_PreferTimezone ==
  pc = "awaitFirst" =>
    /\ HasKey(lastReq.options.headers, <<"P","r","e","f","e","r">>)
         <=> (SupportsTimezone /\ TimezoneSupplied)
    /\ HasKey(lastReq.options.headers, <<"P","r","e","f","e","r">>) =>
         Get(lastReq.options.headers, <<"P","r","e","f","e","r">>)[1]
           = <<"o","u","t","l","o","o","k",".","t","i","m","e","z","o","n","e","=","\"">>
             \o StringOf(Get(params, <<"t","i","m","e","z","o","n","e">>)[1]) \o <<"\"">>
    /\ ~SupportsTimezone =>
         lastReq = BuildRequest(Tool, EndpointConfig(Tool),
                                Without(params, <<"t","i","m","e","z","o","n","e">>))

C21_Witness ==
  /\ pc = "awaitFirst"
  /\ tool_name = <<"l","i","s","t","-","i","t","e","m","s">>
  /\ Get(params, <<"t","i","m","e","z","o","n","e">>) = <<Str(<<"Z","t">>)>>
  /\ Get(lastReq.options.headers, <<"P","r","e","f","e","r">>)
       = <<<<"o","u","t","l","o","o","k",".","t","i","m","e","z","o","n","e","=","\"","Z","t","\"">>>>

\* the endpoint's response is expected to be media content: declared by
\* metadata or by a path template ending in /content
MediaExpected(t) == t.mediaContent \/ EndsWith(t.path, <<"/","c","o","n","t","e","n","t">>)

\* the part of a request path before its query string
PathOnly(p) ==
  IF Includes(p, <<"?">>) THEN SubSeq(p, 1, IndexOf(p, <<"?">>) - 1) ELSE p

\* C22: for an endpoint whose response is expected to be media content, if
\* the endpoint declares returnDownloadUrl the request goes to the path
\* with the trailing /content removed and without the raw-response option,
\* whatever query parameters the caller supplied; otherwise the request has
\* the raw-response option set.
C22_MediaContent ==
  (pc = "awaitFirst" /\ MediaExpected(Tool)) =>
    IF EndpointConfig(Tool) # <<>> /\ EndpointConfig(Tool)[1].returnDownloadUrl
    THEN /\ PathOnly(lastReq.path)
              = SubSeq(Tool.path, 1, Len(Tool.path) - Len(<<"/","c","o","n","t","e","n","t">>))
         /\ ~lastReq.options.rawResponse
    ELSE lastReq.options.rawResponse

(***************************************************************************)
(* Properties of the pagination follow-up requests.                        *)
(***************************************************************************)
\* C23: each follow-up request is sent to the next link's path with any
\* versioned prefix (/v1.0 or /beta) removed: the path handed to
\* graphRequest never starts with a version segment.
C23_VersionPrefixRemoved ==
  pc = "awaitNext" =>
    /\ ~StartsWith(lastReq.path, <<"/","v","1",".","0">>)
    /\ ~StartsWith(lastReq.path, <<"/","b","e","t","a">>)

\* the query parameters of a next link, as a set of key-value pairs
LinkPairs(link) == {link.search[i] : i \in 1..Len(link.search)}

\* C24: each follow-up request carries exactly the query parameters of the
\* next link it follows, none of the first request's query parameters
\* unless the link contains it, and the method, headers and the
\* includeHeaders, excludeResponse and raw-response options of the first
\* request.
C24_FollowUpQuery ==
  pc = "awaitNext" =>
    /\ ~Includes(lastReq.path, <<"?">>)
    /\ lastReq.options.queryParams # <<>>
    /\ {lastReq.options.queryParams[1][i] :
          i \in 1..Len(lastReq.options.queryParams[1])}
         = LinkPairs(nextLink[1])
    /\ Len(lastReq.options.queryParams[1]) = Cardinality(LinkPairs(nextLink[1]))
    /\ \A i \in 1..Len(bound.queryParams) :
         HasKey(lastReq.options.queryParams[1], bound.queryParams[i][1])
           => \E p \in LinkPairs(nextLink[1]) : p[1] = bound.queryParams[i][1]
    /\ lastReq.options.method = options.method
    /\ lastReq.options.headers = options.headers
    /\ lastReq.options.includeHeaders = options.includeHeaders
    /\ lastReq.options.excludeResponse = options.excludeResponse
    /\ lastReq.options.rawResponse = options.rawResponse

C24_Witness ==
  /\ pc = "awaitNext"
  /\ HasKey(bound.queryParams, <<"$","f","i","l","t","e","r">>)
  /\ ~HasKey(lastReq.options.queryParams[1], <<"$","f","i","l","t","e","r">>)
  /\ HasKey(lastReq.options.queryParams[1], <<"$","s","k","i","p","t","o","k","e","n">>)

(***************************************************************************)
(* Properties of the sequencing of network calls.                          *)
(***************************************************************************)
\* the calls of the invocation that have been issued and not yet answered
Outstanding == (reqCount - answered) + (Len(calls) - Len(replies))

\* C25: within one invocation of executeGraphTool or of
\* getTranscriptByMeeting at most one network call is outstanding at any
\* time: a call is outstanding exactly while the handler waits for it, and
\* no call is issued before the previous one was answered.
C25_OneCallOutstanding ==
  /\ Outstanding \in {0, 1}
  /\ Outstanding = 1 <=>
       (pc \in {"awaitFirst", "awaitNext"} \/ wpc \notin {"init", "done"})

C25_Witness ==
  /\ pc = "awaitNext"
  /\ reqCount = 3
  /\ answered = 2

(***************************************************************************)
(* SpecLive: one invocation of either tool handler on a network that       *)
(* answers every call: a handler that can take a step eventually takes     *)
(* one.                                                                    *)
(***************************************************************************)
\* a server whose next links run in a cycle through all pages
CycleServer ==
  [pages |-> [p \in 1..NumPages |->
                [value |-> <<PageItems(p, MaxItems)>>,
                 next  |-> (p % NumPages) + 1]],
   count |-> <<>>]

LiveScenarios ==
  [readOnly : {FALSE},
   entry : {"execute-tool"},
   tool_name : {<<"l","i","s","t","-","i","t","e","m","s">>, <<"n","o","-","s","u","c","h","-","t","o","o","l">>},
   params : {<<>>, << <<<<"f","e","t","c","h","A","l","l","P","a","g","e","s">>, Bool(TRUE)>> >>},
   server : {ChainServer, CycleServer}]

LiveInit ==
  \/ InitExecFrom(LiveScenarios) /\ IdleHttp /\ IdleWorkflow /\ IdleSearch /\ IdleServer
  \/ IdleExec /\ IdleHttp /\ InitWorkflow /\ IdleSearch /\ IdleServer

SpecLive == LiveInit /\ [][ToolsNext]_vars /\ WF_vars(ToolsNext)

\* C26: provided every network call eventually returns or fails, every
\* invocation of executeGraphTool and of getTranscriptByMeeting eventually
\* returns an envelope, also when the external API returns next links
\* forever or next links that point back to an earlier page.
C26_EventuallyReturns ==
  <>(\/ tool_name # <<>> /\ pc = "done" /\ result # <<>>
     \/ wpc = "done" /\ workflowResult # <<>>)

C26_Witness ==
  /\ pc = "done"
  /\ result # <<>>
  /\ pageCount = MaxPageCount
  /\ nextLink # <<>>
  /\ server = CycleServer

(***************************************************************************)
(* Properties of path binding and of the order of the caller's entries.    *)
(***************************************************************************)
RECURSIVE Segments(_)
\* the segments of a path, split at "/"
Segments(p) ==
  IF ~Includes(p, <<"/">>) THEN <<p>>
  ELSE <<SubSeq(p, 1, IndexOf(p, <<"/">>) - 1)>>
       \o Segments(SubSeq(p, IndexOf(p, <<"/">>) + 1, Len(p)))

\* the declared Path parameters the caller supplied
SuppliedPathParams ==
  {Tool.parameters[i].name : i \in 1..Len(Tool.parameters)}
  \cap {n \in Keys(params) : Declares(n, "Path") /\ n \notin ControlKeys}

\* segment i of the template after binding, as the claim has it: the first
\* {name} and the first :name of a supplied Path parameter become the
\* encoded value, every other segment stays
ExpectedSegment(segs, i) ==
  IF \E n \in SuppliedPathParams :
       /\ segs[i] \in {<<"{">> \o n \o <<"}">>, <<":">> \o n}
       /\ \A j \in 1..(i - 1) : segs[j] # segs[i]
  THEN encodeURIComponent(StringOf(
         Get(params, CHOOSE n \in SuppliedPathParams :
                       segs[i] \in {<<"{">> \o n \o <<"}">>, <<":">> \o n})[1]))
  ELSE segs[i]

\* C27: after binding, the first {name} and :name placeholder of every
\* declared Path parameter the caller supplied is replaced by the
\* URL-encoded value, and the placeholders of every other parameter are
\* left untouched, also when one name is a prefix of another (id, idType).
C27_PathPlaceholders ==
  (pc = "awaitFirst" /\ SuppliedPathParams # {}) =>
    LET segs == Segments(Tool.path)
        out  == Segments(PathOnly(lastReq.path))
    IN  /\ Len(out) = Len(segs)
        /\ \A i \in 1..Len(segs) : out[i] = ExpectedSegment(segs, i)

\* the orderings of the caller's entries
Orderings(ps) ==
  {q \in [1..Len(ps) -> {ps[i] : i \in 1..Len(ps)}] :
     \A i, j \in 1..Len(ps) : i # j => q[i] # q[j]}

Pairs(m) == {m[i] : i \in 1..Len(m)}

\* two requests are the same call: the same path before the query string,
\* the same query parameters and headers in any order, the same method and
\* body
SameRequest(r1, r2) ==
  /\ PathOnly(r1.path) = PathOnly(r2.path)
  /\ Pairs(r1.query) = Pairs(r2.query)
  /\ Pairs(r1.options.headers) = Pairs(r2.options.headers)
  /\ r1.options.method = r2.options.method
  /\ r1.options.body = r2.options.body

\* C29: the request built by executeGraphTool does not depend on the order
\* of the entries of the caller's parameter map: the same entries in any
\* other order produce the same path, query parameters, headers and body.
C29_OrderIndependent ==
  pc = "awaitFirst" =>
    \A q \in Orderings(params) :
      SameRequest(BuildRequest(Tool, EndpointConfig(Tool), q), lastReq)

(***************************************************************************)
(* Properties of read-only mode.                                           *)
(***************************************************************************)
\* C28: in read-only mode no request with a method other than GET is ever
\* issued, by a registered tool or through execute-tool, first request or
\* follow-up; an endpoint with another method is not reachable at all; and
\* a GET request never carries a body, whatever body parameter the caller
\* supplies.
C28_ReadOnlyOnlyGet ==
  /\ (readOnly /\ reqCount >= 1) => lastReq.options.method = <<"G","E","T">>
  /\ (readOnly /\ tool_name # <<>> /\ pc # "init"
      /\ \E i \in 1..Len(Endpoints) :
           /\ Endpoints[i].alias = tool_name
           /\ ToUpperCase(Endpoints[i].method) # <<"G","E","T">>)
       => /\ reqCount = 0
          /\ result[1].isError
  /\ (reqCount >= 1 /\ lastReq.options.method = <<"G","E","T">>)
       => lastReq.options.body = <<>>

C28_Witness ==
  /\ readOnly
  /\ pc = "awaitNext"
  /\ HasKey(params, <<"b","o","d","y">>)
  /\ lastReq.options.method = <<"G","E","T">>

(***************************************************************************)
(* SpecSearch: one invocation of search-tools (graph-tools.ts 475-549) on  *)
(* a discovery-mode server.                                                *)
(***************************************************************************)
\* limit = 20 (line 496)
DefaultLimit == 20

\* Math.min(limit, 50) (line 497)
LimitCap == 50

\* TOOL_CATEGORIES[category] (tool-categories.ts 8-68): the alternatives of
\* the category's pattern as an optional value; no entry for other names
CategoryDef(category) ==
  CASE category = <<"m","a","i","l">>   -> <<{<<"m","a","i","l">>, <<"a","t","t","a","c","h","m","e","n","t">>, <<"d","r","a","f","t">>}>>
    [] category = <<"f","i","l","e","s">>  -> <<{<<"d","r","i","v","e">>, <<"f","i","l","e">>, <<"u","p","l","o","a","d">>, <<"d","o","w","n","l","o","a","d">>,
                                   <<"f","o","l","d","e","r">>, <<"i","t","e","m">>}>>
    [] category = <<"s","e","a","r","c","h">> -> <<{<<"s","e","a","r","c","h">>, <<"q","u","e","r","y">>}>>
    [] category = <<"a","l","l">>    -> <<{<<>>}>>
    [] OTHER                 -> <<>>

\* pattern.test(name), for a case-insensitive pattern of alternatives
PatternTest(alternatives, name) ==
  \E a \in alternatives : Includes(ToLowerCase(name), a)

\* tool.description, the empty text when an endpoint has none
Description(t) ==
  IF t.alias = <<"l","i","s","t","-","i","t","e","m","s">> THEN <<"L","i","s","t"," ","M","y"," ","I","t","e","m","s">> ELSE <<>>

\* the searchText of lines 514-515; no endpoint of the catalog has an llmTip
SearchText(t) ==
  ToLowerCase(t.alias \o <<" ">> \o t.path \o <<" ">> \o Description(t) \o <<" ">>)

\* the entries of the registry in iteration order
RegistryEntries(ro) == SelectSeq(Endpoints, LAMBDA t : IsRegistered(t, ro))

RECURSIVE SearchLoop(_, _, _, _, _, _)
\* the for loop of lines 508-529, from entry i on
SearchLoop(reg, i, found, queryLower, categoryDef, maxLimit) ==
  IF i > Len(reg) THEN found
  ELSE IF categoryDef # <<>> /\ ~PatternTest(categoryDef[1], reg[i].alias)
       THEN SearchLoop(reg, i + 1, found, queryLower, categoryDef, maxLimit)
  ELSE IF queryLower # <<>> /\ queryLower[1] # <<>>
          /\ ~Includes(SearchText(reg[i]), queryLower[1])
       THEN SearchLoop(reg, i + 1, found, queryLower, categoryDef, maxLimit)
  ELSE IF Len(found) + 1 >= maxLimit
       THEN Append(found, reg[i].alias)
       ELSE SearchLoop(reg, i + 1, Append(found, reg[i].alias),
                       queryLower, categoryDef, maxLimit)

\* lines 496-529: the results array for the arguments args
SearchTools(ro, args) ==
  LET limit       == IF args.limit = <<>> THEN DefaultLimit ELSE args.limit[1]
      maxLimit    == IF limit < LimitCap THEN limit ELSE LimitCap
      queryLower  == IF args.query = <<>> THEN <<>>
                     ELSE <<ToLowerCase(args.query[1])>>
      categoryDef == IF args.category # <<>> /\ args.category[1] # <<>>
                     THEN CategoryDef(args.category[1]) ELSE <<>>
  IN  SearchLoop(RegistryEntries(ro), 1, <<>>, queryLower, categoryDef,
                 maxLimit)

Queries == {<<>>, <<<<>>>>, <<<<"I","T","E","M">>>>, <<<<"/","m","e">>>>, <<<<"m","y">>>>, <<<<"z","z">>>>}

Categories ==
  {<<>>, <<<<>>>>, <<<<"m","a","i","l">>>>, <<<<"f","i","l","e","s">>>>, <<<<"s","e","a","r","c","h">>>>, <<<<"a","l","l">>>>}

Limits == {<<>>} \cup {<<n>> : n \in {-1, 0, 1, 2, 3, LimitCap, LimitCap + 1}}

InitSearch ==
  /\ searchArgs \in [query : Queries, category : Categories, limit : Limits]
  /\ results = <<>>
  /\ searchPc = "init"
  /\ searchResult = <<>>

\* the handler of lines 496-548
Search ==
  /\ searchPc = "init"
  /\ results' = SearchTools(readOnly, searchArgs)
  /\ searchResult' =
       <<[found |-> Len(SearchTools(readOnly, searchArgs)),
          total |-> Len(RegistryEntries(readOnly)),
          tools |-> SearchTools(readOnly, searchArgs)]>>
  /\ searchPc' = "done"
  /\ UNCHANGED <<searchArgs, execVars, httpVars, workflowVars, serverVars>>

SearchInit ==
  /\ \E ro \in BOOLEAN : IdleExecIn(ro)
  /\ IdleHttp /\ IdleWorkflow /\ InitSearch /\ IdleServer

SearchNext == Search

SpecSearch == SearchInit /\ [][SearchNext]_vars

\* C30: search-tools returns at most min(limit, 50) tools for every limit
\* the caller supplies, 0 and negative values included, and at most 20 when
\* no limit is given; every returned tool is in the registry, contains the
\* query in its search text when a query was supplied, and matches the
\* category's pattern when a category was supplied.
C30_SearchLimit ==
  searchPc = "done" /\ searchResult # <<>> =>
    LET tools == searchResult[1].tools
        most  == IF searchArgs.limit = <<>> THEN 20
                 ELSE IF searchArgs.limit[1] < 50 THEN searchArgs.limit[1]
                 ELSE 50
    IN  /\ Len(tools) <= most
        /\ \A i \in 1..Len(tools) :
             /\ ToolsRegistryGet(tools[i]) # <<>>
             /\ searchArgs.query # <<>> =>
                  Includes(SearchText(ToolsRegistryGet(tools[i])[1]),
                           ToLowerCase(searchArgs.query[1]))
             /\ (searchArgs.category # <<>>
                 /\ CategoryDef(searchArgs.category[1]) # <<>>) =>
                  PatternTest(CategoryDef(searchArgs.category[1])[1], tools[i])

(***************************************************************************)
(* SpecRegister: the two ways a server makes Graph tools reachable at      *)
(* start-up, registerGraphTools (graph-tools.ts 330-438) and               *)
(* buildToolsRegistry (graph-tools.ts 440-464), over the same catalog and  *)
(* options.                                                                *)
(***************************************************************************)
MaxTools == 2

\* the aliases of api.endpoints, by position; aliases are distinct
Aliases == <<<<"l","i","s","t","-","m","a","i","l">>, <<"s","e","n","d","-","m","a","i","l">>, <<"l","i","s","t","-","c","h","a","t","s">>, <<"g","e","t","-","d","r","i","v","e">>>>

\* endpoints.json entries as far as the filters read them: whether scopes
\* and workScopes are present; <<>> when the endpoint has no entry
ScopeConfigs ==
  {<<>>} \cup {<<c>> : c \in [scopes : BOOLEAN, workScopes : BOOLEAN]}

ToolKinds == [method : {<<"g","e","t">>, <<"p","o","s","t">>}, config : ScopeConfigs]

Catalogs == UNION {[1..k -> ToolKinds] : k \in 0..MaxTools}

\* new RegExp(pattern, 'i').test(alias), for a pattern of plain letters
PatternMatches(pattern, alias) ==
  Includes(ToLowerCase(alias), ToLowerCase(pattern))

\* lines 353-357: a work account tool outside org mode
SkippedAsWorkTool(kind, orgMode) ==
  /\ ~orgMode
  /\ kind.config # <<>>
  /\ ~kind.config[1].scopes
  /\ kind.config[1].workScopes

\* lines 359-363
SkippedAsWrite(kind, ro) ==
  ro /\ ToUpperCase(kind.method) # <<"G","E","T">>

\* lines 365-369
SkippedByPattern(i, enabledTools) ==
  enabledTools # <<>> /\ ~PatternMatches(enabledTools[1], Aliases[i])

\* registerGraphTools: the names handed to server.tool, in order
RegisteredNames(endpoints, opts) ==
  LET kept == {i \in 1..Len(endpoints) :
                 /\ ~SkippedAsWorkTool(endpoints[i], opts.orgMode)
                 /\ ~SkippedAsWrite(endpoints[i], opts.readOnly)
                 /\ ~SkippedByPattern(i, opts.enabledTools)}
  IN  {Aliases[i] : i \in kept}

\* lines 452-454
RegistrySkipsAlways(kind, orgMode) == FALSE

RegistrySkipsWorkTool(kind, orgMode) ==
  /\ ~orgMode
  /\ kind.config # <<>>
  /\ ~kind.config[1].scopes
  /\ kind.config[1].workScopes

\* lines 456-458
RegistrySkipsWrite(kind, ro) ==
  ro /\ ToUpperCase(kind.method) # <<"G","E","T">>

\* buildToolsRegistry: the keys of toolsMap
RegistryNames(endpoints, opts) ==
  LET kept == {i \in 1..Len(endpoints) :
                 /\ ~RegistrySkipsWorkTool(endpoints[i], opts.orgMode)
                 /\ ~RegistrySkipsWrite(endpoints[i], opts.readOnly)}
  IN  {Aliases[i] : i \in kept}

InitRegister ==
  /\ serverOptions \in [readOnly : BOOLEAN, orgMode : BOOLEAN,
                        enabledTools : {<<>>, <<<<"M","A","I","L">>>>}]
  /\ apiEndpoints \in Catalogs
  /\ registered = <<>>
  /\ toolsMap = <<>>

\* a server started without discovery (server.ts 90-96)
RegisterGraphTools ==
  /\ registered = <<>>
  /\ registered' = <<RegisteredNames(apiEndpoints, serverOptions)>>
  /\ UNCHANGED <<serverOptions, apiEndpoints, toolsMap>>
  /\ UNCHANGED <<execVars, httpVars, workflowVars, searchVars, oauthVars>>

\* a server started in discovery mode (server.ts 82-88, graph-tools.ts 472)
RegisterDiscoveryTools ==
  /\ toolsMap = <<>>
  /\ toolsMap' = <<RegistryNames(apiEndpoints, serverOptions)>>
  /\ UNCHANGED <<serverOptions, apiEndpoints, registered>>
  /\ UNCHANGED <<execVars, httpVars, workflowVars, searchVars, oauthVars>>

RegisterInit ==
  /\ IdleExec /\ IdleHttp /\ IdleWorkflow /\ IdleSearch /\ IdleOAuth
  /\ InitRegister

RegisterNext == RegisterGraphTools \/ RegisterDiscoveryTools

SpecRegister == RegisterInit /\ [][RegisterNext]_vars

\* C31: for every readOnly and orgMode, when no enabled-tools pattern is
\* given, the names reachable through execute-tool are the names
\* registerGraphTools registers; a non-GET tool is in neither set when
\* readOnly, and a tool whose entry has workScopes but no scopes is in
\* neither set when orgMode is off.
C31_SameToolSets ==
  (registered # <<>> /\ toolsMap # <<>>
   /\ serverOptions.enabledTools = <<>>) =>
    /\ toolsMap[1] = registered[1]
    /\ \A i \in 1..Len(apiEndpoints) :
         LET t == apiEndpoints[i]
         IN  /\ (serverOptions.readOnly /\ t.method = <<"p","o","s","t">>)
                  => Aliases[i] \notin toolsMap[1] \cup registered[1]
             /\ (~serverOptions.orgMode
                 /\ t.config \in {<<[scopes |-> FALSE, workScopes |-> TRUE]>>})
                  => Aliases[i] \notin toolsMap[1] \cup registered[1]

C31_Witness ==
  /\ registered # <<>> /\ toolsMap # <<>>
  /\ serverOptions = [readOnly |-> TRUE, orgMode |-> FALSE,
                      enabledTools |-> <<>>]
  /\ Len(apiEndpoints) = 2
  /\ apiEndpoints[1].method = <<"g","e","t">>
  /\ apiEndpoints[1].config = <<[scopes |-> TRUE, workScopes |-> TRUE]>>
  /\ apiEndpoints[2].config = <<[scopes |-> FALSE, workScopes |-> TRUE]>>
  /\ registered[1] = {Aliases[1]}


(***************************************************************************)
(* The OAuth endpoints of the HTTP server: GET /authorize redirects to     *)
(* Microsoft, POST /token exchanges a code or a refresh token              *)
(* (server.ts 188-317).                                                    *)
(***************************************************************************)
MaxQuery == 2

\* application/x-www-form-urlencoded serialisation of one character, as
\* URLSearchParams.toString does it: a space becomes "+", and "+" and the
\* reserved characters are percent-encoded.
FormEncodeChar(c) ==
  IF c = " " THEN <<"+">>
  ELSE IF c = "+" THEN <<"%","2","B">>
  ELSE EncodeChar(c)

RECURSIVE FormEncode(_)
FormEncode(s) ==
  IF s = <<>> THEN <<>>
  ELSE FormEncodeChar(Head(s)) \o FormEncode(Tail(s))

\* URLSearchParams.toString(): name=value pairs joined by "&"
RECURSIVE SearchString(_)
SearchString(q) ==
  IF q = <<>> THEN <<>>
  ELSE FormEncode(q[1][1]) \o <<"=">> \o FormEncode(q[1][2])
       \o (IF Len(q) > 1 THEN <<"&">> ELSE <<>>) \o SearchString(Tail(q))

\* URLSearchParams.get(name): the first value of the name, null when absent
SearchParamsGet(q, name) ==
  IF HasKey(q, name)
  THEN <<q[Min({i \in 1..Len(q) : q[i][1] = name})][2]>>
  ELSE <<>>

\* URLSearchParams.set(name, value): the first pair of the name takes the
\* value and the others are removed; a new name is appended.
SearchParamsSet(q, name, value) ==
  IF HasKey(q, name)
  THEN LET first == Min({i \in 1..Len(q) : q[i][1] = name})
           keep  == SelectSeq([i \in 1..Len(q) |-> <<i, q[i]>>],
                              LAMBDA e : e[2][1] # name \/ e[1] = first)
       IN  [i \in 1..Len(keep) |->
              IF keep[i][2][1] = name THEN <<name, value>> ELSE keep[i][2]]
  ELSE Append(q, <<name, value>>)

\* cloudEndpoints.authority of the configured cloud (server.ts 192)
Authority == <<"h","t","t","p","s",":","/","/","l","o","g","i","n">>

\* this.secrets?.tenantId || 'common'
TenantId(s) ==
  IF s.tenantId # <<>> /\ s.tenantId[1] # <<>> THEN s.tenantId[1]
  ELSE <<"c","o","m","m","o","n">>

\* `${cloudEndpoints.authority}/${tenantId}/oauth2/v2.0/authorize`
AuthorizeEndpoint(s) ==
  Authority \o <<"/">> \o TenantId(s) \o <<"/","o","a","u","t","h","2","/","v","2",".","0","/","a","u","t","h","o","r","i","z","e">>

\* a wider list that also lets the resource parameter through
allowedParamsWide ==
  << <<"r","e","s","p","o","n","s","e","_","t","y","p","e">>, <<"r","e","d","i","r","e","c","t","_","u","r","i">>, <<"s","c","o","p","e">>, <<"s","t","a","t","e">>,
     <<"r","e","s","p","o","n","s","e","_","m","o","d","e">>, <<"c","o","d","e","_","c","h","a","l","l","e","n","g","e">>, <<"c","o","d","e","_","c","h","a","l","l","e","n","g","e","_","m","e","t","h","o","d">>,
     <<"p","r","o","m","p","t">>, <<"l","o","g","i","n","_","h","i","n","t">>, <<"d","o","m","a","i","n","_","h","i","n","t">>, <<"r","e","s","o","u","r","c","e">> >>

\* the parameters Microsoft OAuth 2.0 v2.0 supports (server.ts 198-209)
allowedParams ==
  << <<"r","e","s","p","o","n","s","e","_","t","y","p","e">>, <<"r","e","d","i","r","e","c","t","_","u","r","i">>, <<"s","c","o","p","e">>, <<"s","t","a","t","e">>,
     <<"r","e","s","p","o","n","s","e","_","m","o","d","e">>, <<"c","o","d","e","_","c","h","a","l","l","e","n","g","e">>, <<"c","o","d","e","_","c","h","a","l","l","e","n","g","e","_","m","e","t","h","o","d">>,
     <<"p","r","o","m","p","t">>, <<"l","o","g","i","n","_","h","i","n","t">>, <<"d","o","m","a","i","n","_","h","i","n","t">> >>

DefaultScopes == <<"U","s","e","r",".","R","e","a","d"," ","F","i","l","e","s",".","R","e","a","d"," ","M","a","i","l",".","R","e","a","d">>

\* allowedParams.forEach: a parameter of the list whose first value in the
\* request is a non-empty string is set on the Microsoft URL
RECURSIVE ForwardParams(_, _, _)
ForwardParams(target, query, names) ==
  IF names = <<>> THEN target
  ELSE LET value == SearchParamsGet(query, Head(names))
       IN  ForwardParams(IF value # <<>> /\ value[1] # <<>>
                         THEN SearchParamsSet(target, Head(names), value[1])
                         ELSE target,
                         query, Tail(names))

\* the search parameters of microsoftAuthUrl when the handler redirects
MicrosoftAuthParams(query, clientId) ==
  LET forwarded  == ForwardParams(<<>>, query, allowedParams)
      withClient == SearchParamsSet(forwarded, <<"c","l","i","e","n","t","_","i","d">>, clientId)
      scope      == SearchParamsGet(withClient, <<"s","c","o","p","e">>)
  IN  IF scope = <<>> \/ scope[1] = <<>>
      THEN SearchParamsSet(withClient, <<"s","c","o","p","e">>, DefaultScopes)
      ELSE withClient

\* microsoftAuthUrl.toString()
Href(endpoint, q) ==
  endpoint \o (IF q = <<>> THEN <<>> ELSE <<"?">> \o SearchString(q))

Redirect(location) ==
  [status |-> 302, location |-> location, error |-> ""]

Json(status, error) ==
  [status |-> status, location |-> <<>>, error |-> error]

\* GET /authorize
Authorize ==
  /\ oauthPc = "received"
  /\ oauthReq.route = "authorize"
  /\ responses' =
       Append(responses,
              Redirect(Href(AuthorizeEndpoint(secrets),
                            MicrosoftAuthParams(oauthReq.query,
                                                secrets.clientId))))
  /\ oauthPc' = "done"
  /\ UNCHANGED <<secrets, oauthReq, exchangeCalls>>
  /\ UNCHANGED <<execVars, httpVars, workflowVars, searchVars, registerVars>>

\* `${v}` raises a TypeError: the value is an object whose own toString
\* property is not a function (no value of a parsed JSON body is one), so
\* neither toString nor Object.prototype.valueOf yields a primitive.
StringOfThrows(v) == v.w # <<>> /\ Head(v.w) = <<"t","o","S","t","r","i","n","g">>

\* the 500 answer of the catch block (server.ts 309-315)
ServerError == Json(500, "server_error")

\* POST /token up to its first answer or its await (server.ts 231-308)
Token ==
  /\ oauthPc = "received"
  /\ oauthReq.route = "token"
  /\ LET body == oauthReq.body
     IN  IF body = <<>>
         THEN /\ responses' = Append(responses, Json(400, "invalid_request"))
              /\ oauthPc' = "done"
              /\ UNCHANGED exchangeCalls
         ELSE IF body[1].grant_type = <<>>
                 \/ ~Truthy(body[1].grant_type[1])
         THEN /\ responses' = Append(responses, Json(400, "invalid_request"))
              /\ oauthPc' = "done"
              /\ UNCHANGED exchangeCalls
         ELSE IF body[1].grant_type[1] = Str(<<"a","u","t","h","o","r","i","z","a","t","i","o","n","_","c","o","d","e">>)
         THEN /\ exchangeCalls' =
                   Append(exchangeCalls,
                          [fn           |-> "exchangeCodeForToken",
                           grant        |-> body[1].code,
                           clientId     |-> secrets.clientId,
                           clientSecret |-> secrets.clientSecret,
                           tenantId     |-> TenantId(secrets)])
              /\ oauthPc' = "awaitExchange"
              /\ UNCHANGED responses
         ELSE IF body[1].grant_type[1] = Str(<<"r","e","f","r","e","s","h","_","t","o","k","e","n">>)
         THEN /\ exchangeCalls' =
                   Append(exchangeCalls,
                          [fn           |-> "refreshAccessToken",
                           grant        |-> body[1].refresh_token,
                           clientId     |-> secrets.clientId,
                           clientSecret |-> secrets.clientSecret,
                           tenantId     |-> TenantId(secrets)])
              /\ oauthPc' = "awaitExchange"
              /\ UNCHANGED responses
         ELSE IF StringOfThrows(body[1].grant_type[1])
         THEN \* the template string of line 305 throws into the catch
              /\ responses' = Append(responses, ServerError)
              /\ oauthPc' = "done"
              /\ UNCHANGED exchangeCalls
         ELSE /\ responses' =
                   Append(responses, Json(400, "unsupported_grant_type"))
              /\ oauthPc' = "done"
              /\ UNCHANGED exchangeCalls
  /\ UNCHANGED <<secrets, oauthReq>>
  /\ UNCHANGED <<execVars, httpVars, workflowVars, searchVars, registerVars>>

\* the awaited exchange or refresh resolves: res.json(result)
ExchangeResolves ==
  /\ oauthPc = "awaitExchange"
  /\ responses' = Append(responses, Json(200, ""))
  /\ oauthPc' = "done"
  /\ UNCHANGED <<secrets, oauthReq, exchangeCalls>>
  /\ UNCHANGED <<execVars, httpVars, workflowVars, searchVars, registerVars>>

\* the awaited exchange or refresh rejects: the catch block answers
ExchangeRejects ==
  /\ oauthPc = "awaitExchange"
  /\ responses' = Append(responses, ServerError)
  /\ oauthPc' = "done"
  /\ UNCHANGED <<secrets, oauthReq, exchangeCalls>>
  /\ UNCHANGED <<execVars, httpVars, workflowVars, searchVars, registerVars>>

\* the parameters a requester may put in the query of GET /authorize
QueryPairs ==
  { <<<<"c","l","i","e","n","t","_","i","d">>, <<"e","v","i","l">>>>,
    <<<<"s","c","o","p","e">>, <<"M","a","i","l",".","S","e","n","d">>>>,
    <<<<"s","c","o","p","e">>, <<>>>>,
    <<<<"s","t","a","t","e">>, <<"a","&","c","l","i","e","n","t","_","i","d","=","e","v","i","l">>>>,
    <<<<"s","t","a","t","e">>, <<"b">>>>,
    <<<<"r","e","s","o","u","r","c","e">>, <<"r">>>> }

RECURSIVE AuthorizeQueries(_)
AuthorizeQueries(n) ==
  IF n = 0 THEN {<<>>}
  ELSE LET shorter == AuthorizeQueries(n - 1)
       IN  shorter \cup {Append(q, p) : q \in shorter, p \in QueryPairs}

\* the values body.grant_type may hold after express.json() or
\* express.urlencoded() parsed the body (server.ts 127-128)
GrantTypes ==
  { <<>>,
    <<Str(<<>>)>>,
    <<Str(<<"a","u","t","h","o","r","i","z","a","t","i","o","n","_","c","o","d","e">>)>>,
    <<Str(<<"r","e","f","r","e","s","h","_","t","o","k","e","n">>)>>,
    <<Str(<<"p","a","s","s","w","o","r","d">>)>>,
    <<Wrap(<<"a">>, Str(<<"b">>))>>,
    <<Wrap(<<"t","o","S","t","r","i","n","g">>, Str(<<"x">>))>> }

TokenBodies ==
  {<<>>} \cup
  { <<b>> : b \in [grant_type    : GrantTypes,
                   code          : {<<>>, <<<<"c","1">>>>},
                   refresh_token : {<<>>, <<<<"r","1">>>>}] }

OAuthRequests ==
  { [route |-> "authorize", query |-> q, body |-> <<>>] :
      q \in AuthorizeQueries(MaxQuery) } \cup
  { [route |-> "token", query |-> <<>>, body |-> b] : b \in TokenBodies }

\* the secrets loaded by initialize() (server.ts 65)
Secrets ==
  [clientId     : {<<"a","p","p">>},
   clientSecret : {<<>>, <<<<"s","3">>>>},
   tenantId     : {<<>>, <<<<"t","1">>>>}]

InitOAuth ==
  /\ secrets \in Secrets
  /\ oauthReq \in OAuthRequests
  /\ oauthPc = "received"
  /\ exchangeCalls = <<>>
  /\ responses = <<>>

OAuthInit ==
  /\ IdleExec /\ IdleHttp /\ IdleWorkflow /\ IdleSearch /\ IdleRegister
  /\ InitOAuth

OAuthNext == Authorize \/ Token \/ ExchangeResolves \/ ExchangeRejects

SpecOAuth == OAuthInit /\ [][OAuthNext]_vars

(***************************************************************************)
(* The redirect URL as its receiver reads it: the query string is split at *)
(* "&" and "=", and each part is form-decoded.                             *)
(***************************************************************************)
Reserved ==
  {"$", "/", "=", "&", "?", ":", "{", "}", "[", "]", "%", "\"", "+"}

RECURSIVE FormDecode(_)
FormDecode(s) ==
  IF s = <<>> THEN <<>>
  ELSE IF s[1] = "+" THEN <<" ">> \o FormDecode(Tail(s))
  ELSE IF /\ s[1] = "%"
          /\ Len(s) >= 3
          /\ \E c \in Reserved : FormEncodeChar(c) = SubSeq(s, 1, 3)
  THEN <<CHOOSE c \in Reserved : FormEncodeChar(c) = SubSeq(s, 1, 3)>>
       \o FormDecode(SubSeq(s, 4, Len(s)))
  ELSE <<s[1]>> \o FormDecode(Tail(s))

RECURSIVE SplitOn(_, _)
SplitOn(s, sep) ==
  LET i == IndexOf(s, sep)
  IN  IF i = 0 THEN <<s>>
      ELSE <<SubSeq(s, 1, i - 1)>> \o SplitOn(SubSeq(s, i + 1, Len(s)), sep)

ParsePair(p) ==
  LET i == IndexOf(p, <<"=">>)
  IN  IF i = 0 THEN <<FormDecode(p), <<>>>>
      ELSE <<FormDecode(SubSeq(p, 1, i - 1)),
             FormDecode(SubSeq(p, i + 1, Len(p)))>>

\* new URL(href).searchParams
SearchParamsOf(href) ==
  LET i == IndexOf(href, <<"?">>)
  IN  IF i = 0 THEN <<>>
      ELSE LET parts == SelectSeq(SplitOn(SubSeq(href, i + 1, Len(href)),
                                          <<"&">>),
                                  LAMBDA p : p # <<>>)
           IN  [j \in 1..Len(parts) |-> ParsePair(parts[j])]

\* the part of the URL before its query string
EndpointOf(href) ==
  LET i == IndexOf(href, <<"?">>)
  IN  IF i = 0 THEN href ELSE SubSeq(href, 1, i - 1)

\* the allow-list the redirect is held to
AllowedNames ==
  { <<"r","e","s","p","o","n","s","e","_","t","y","p","e">>, <<"r","e","d","i","r","e","c","t","_","u","r","i">>, <<"s","c","o","p","e">>, <<"s","t","a","t","e">>,
    <<"r","e","s","p","o","n","s","e","_","m","o","d","e">>, <<"c","o","d","e","_","c","h","a","l","l","e","n","g","e">>, <<"c","o","d","e","_","c","h","a","l","l","e","n","g","e","_","m","e","t","h","o","d">>,
    <<"p","r","o","m","p","t">>, <<"l","o","g","i","n","_","h","i","n","t">>, <<"d","o","m","a","i","n","_","h","i","n","t">> }

\* C32: the redirect of GET /authorize goes to the authorize endpoint of
\* the configured tenant, carries the server's own client_id exactly once,
\* carries besides it only parameters of the allow-list, each at most once
\* and with the first non-empty value the requester gave it, and always
\* carries a scope: the requester's, or the default scopes when the
\* requester gave none.  A client_id or any other parameter of the
\* requester never reaches the URL.
C32_AuthorizeRedirect ==
  (oauthReq.route = "authorize" /\ oauthPc = "done") =>
    /\ Len(responses) = 1
    /\ responses[1].status = 302
    /\ LET href  == responses[1].location
           sent  == SearchParamsOf(href)
           given == oauthReq.query
       IN  /\ EndpointOf(href) = AuthorizeEndpoint(secrets)
           /\ \A i, j \in 1..Len(sent) : sent[i][1] = sent[j][1] => i = j
           /\ Keys(sent) \subseteq AllowedNames \cup {<<"c","l","i","e","n","t","_","i","d">>}
           /\ SearchParamsGet(sent, <<"c","l","i","e","n","t","_","i","d">>) = <<secrets.clientId>>
           /\ \A name \in AllowedNames \ {<<"s","c","o","p","e">>} :
                SearchParamsGet(sent, name) =
                  (IF SearchParamsGet(given, name) \in {<<>>, <<<<>>>>}
                   THEN <<>> ELSE SearchParamsGet(given, name))
           /\ SearchParamsGet(sent, <<"s","c","o","p","e">>) =
                (IF SearchParamsGet(given, <<"s","c","o","p","e">>) \in {<<>>, <<<<>>>>}
                 THEN <<DefaultScopes>>
                 ELSE SearchParamsGet(given, <<"s","c","o","p","e">>))

\* a requester sent its own client_id and a parameter outside the list
\* and no scope; the redirect carries the server's client_id and the
\* default scopes only
C32_Witness ==
  /\ oauthReq.route = "authorize"
  /\ oauthPc = "done"
  /\ oauthReq.query = << <<<<"c","l","i","e","n","t","_","i","d">>, <<"e","v","i","l">>>>, <<<<"r","e","s","o","u","r","c","e">>, <<"r">>>> >>
  /\ secrets.tenantId = <<>>
  /\ Len(responses) = 1
  /\ responses[1].location =
       <<"h","t","t","p","s",":","/","/","l","o","g","i","n","/","c","o","m","m","o","n","/","o","a","u","t","h","2","/","v","2",".","0","/","a","u","t","h","o","r","i","z","e","?","c","l","i","e","n","t","_","i","d","=","a","p","p","&","s","c","o","p","e","=","U","s","e","r",".","R","e","a","d","+","F","i","l","e","s",".","R","e","a","d","+","M","a","i","l",".","R","e","a","d">>

\* body.grant_type is absent or falsy
GrantTypeMissing(body) ==
  body[1].grant_type = <<>> \/ ~Truthy(body[1].grant_type[1])

\* body.grant_type is one of the two supported grant types
GrantTypeSupported(body) ==
  /\ ~GrantTypeMissing(body)
  /\ body[1].grant_type[1] \in
       {Str(<<"a","u","t","h","o","r","i","z","a","t","i","o","n","_","c","o","d","e">>), Str(<<"r","e","f","r","e","s","h","_","t","o","k","e","n">>)}

\* C33: POST /token answers at most once, and exactly once when it has
\* finished; a missing body or missing grant_type is answered 400
\* invalid_request, a grant_type other than authorization_code and
\* refresh_token is answered 400 unsupported_grant_type, both without a
\* call of the token exchange; a supported grant_type calls the exchange
\* once and is answered with its result, or with 500 server_error when the
\* exchange raised.
C33_TokenAnswersOnce ==
  (oauthReq.route = "token") =>
    /\ Len(responses) <= 1
    /\ oauthPc = "awaitExchange" =>
         /\ responses = <<>>
         /\ Len(exchangeCalls) = 1
         /\ GrantTypeSupported(oauthReq.body)
    /\ oauthPc = "done" =>
         /\ Len(responses) = 1
         /\ IF oauthReq.body = <<>> \/ GrantTypeMissing(oauthReq.body)
            THEN /\ responses[1] = Json(400, "invalid_request")
                 /\ exchangeCalls = <<>>
            ELSE IF GrantTypeSupported(oauthReq.body)
            THEN /\ responses[1] \in {Json(200, ""), Json(500, "server_error")}
                 /\ Len(exchangeCalls) = 1
            ELSE /\ responses[1] = Json(400, "unsupported_grant_type")
                 /\ exchangeCalls = <<>>
=============================================================================
